---------------------------- MODULE Spec2Model ----------------------------
(***************************************************************************)
(* Building segmentation of the LiDAR building extractor:                  *)
(*   OptimizedBuildingProcessor (process_buildings_improved.py)            *)
(*     create_spatial_grid, downsample_points, merge_adjacent_clusters,    *)
(*     segment_buildings_optimized                                         *)
(*   MetzBuildingProcessor (process_pointclouds_buildings.py)              *)
(*     segment_buildings_by_proximity                                      *)
(*                                                                         *)
(* Coordinates are integers (one unit = one metre); a point is <<x,y,z>>.  *)
(* Means (centroids) are kept exact as integer sums over a common          *)
(* denominator, and every distance test is a comparison of squares.        *)
(* Python indices 0..n-1 are the indices 1..n here.                        *)
(***************************************************************************)
EXTENDS Integers, Sequences, FiniteSets, TLC

VARIABLES
    entry,                   \* the method that is called on the points
    points,                  \* the building points handed to the segmentation
    eps,                     \* dbscan_eps
    min_points,              \* dbscan_min_points
    grid_size,               \* self.grid_size
    max_points_per_cluster,  \* self.max_points_per_cluster
    radius_closed,           \* whether the radius search counts distance = eps
    pc,                      \* position in the segmentation
    grid_cells,              \* dict of create_spatial_grid, in insertion order
    cell_i,                  \* number of grid cells already clustered
    all_clusters,            \* list of clusters (each a list of point indices)
    cluster_origin,          \* per cluster: the cell and the label it came from
    cell_log,                \* per clustered cell: what the iteration computed
    buildings,               \* the list returned by the segmentation
    merge_labels,            \* labels of the centroid clustering of the merge
    merge_calls              \* number of calls of merge_adjacent_clusters

\* what a call is given and never changes
config == << entry, points, eps, min_points, grid_size,
             max_points_per_cluster, radius_closed >>

\* the state of one segmentation
seg_vars == << entry, points, eps, min_points, grid_size,
               max_points_per_cluster, radius_closed, pc, grid_cells, cell_i,
               all_clusters, cluster_origin, cell_log, buildings, merge_labels,
               merge_calls >>

VARIABLES
    proc,                    \* the processor whose process_all runs
    input_dir,               \* the names of the files in self.input_dir
    tiles,                   \* per file name: what the file holds
    laz_files,               \* the list find_laz_files returned
    file_i,                  \* number of entries of laz_files already handled
    file_buildings,          \* number of buildings of the current file
    bldg_i,                  \* number of them already handled
    building_counter,        \* building_counter
    metadata,                \* self.metadata
    all_buildings,           \* all_buildings, the meshes by building id
    exported,                \* the building files written by export_to_glb
    merged_model,            \* the meshes given to _create_merged_model
    metadata_file,           \* the dict written by _save_metadata
    warnings,                \* what logger.warning reported
    segment_calls,           \* the entries of laz_files that were segmented
    failed,                  \* the buildings whose reconstruction failed
    batch_pc                 \* position in process_all

\* the state of one run of process_all
batch_vars == << proc, input_dir, tiles, laz_files, file_i, file_buildings,
                 bldg_i, building_counter, metadata, all_buildings, exported,
                 merged_model, metadata_file, warnings, segment_calls, failed,
                 batch_pc >>

VARIABLES
    ransac_proc,             \* the processor whose extract_planes_ransac runs
    ransac_points,           \* points: per point, the planes it lies on
    max_planes,              \* max_planes, max_iterations
    ransac_min_points,       \* min_points
    remaining_pcd,           \* remaining_pcd, remaining_points: indices of points
    planes,                  \* planes
    fit_log,                 \* per recorded plane: the pool and the inliers
    ransac_i,                \* i
    ransac_pc                \* position in extract_planes_ransac

\* the state of one run of extract_planes_ransac
ransac_vars == << ransac_proc, ransac_points, max_planes, ransac_min_points,
                  remaining_pcd, planes, fit_log, ransac_i, ransac_pc >>

VARIABLES
    mesh_entry,              \* the method called
    mesh_points,             \* points: the indices of the building's points
    mesh_planes,             \* planes: per plane, the indices of its points
    plane_i,                 \* number of planes already handled
    combined_mesh,           \* combined_mesh
    plane_log,               \* per plane handled: what its plane mesh became
    mesh,                    \* mesh
    mesh_source,             \* what the mesh was made from
    mesh_pc                  \* position in create_building_mesh

\* the state of one run of create_building_mesh
mesh_vars == << mesh_entry, mesh_points, mesh_planes, plane_i, combined_mesh,
                plane_log, mesh, mesh_source, mesh_pc >>

\* what a segmentation leaves alone
not_seg_vars == << batch_vars, ransac_vars, mesh_vars >>

\* what process_all leaves alone
not_batch_vars == << seg_vars, ransac_vars, mesh_vars >>

\* what extract_planes_ransac leaves alone
not_ransac_vars == << seg_vars, batch_vars, mesh_vars >>

\* what create_building_mesh leaves alone
not_mesh_vars == << seg_vars, batch_vars, ransac_vars >>

vars == << seg_vars, batch_vars, ransac_vars, mesh_vars >>

-----------------------------------------------------------------------------
(* Bounds of the model *)

MaxPts == 3      \* most points of an enumerated point set
MaxCoord == 2    \* largest x coordinate of an enumerated point
MaxArm == 3      \* longest arm of the block of Scenario B, and its cell size
LargeCap == 50   \* a cap no cell of Scenario B exceeds
MaxFoot == 3     \* most rows in the foot of the beam scenario
MaxCells == 4    \* most cells of a segmentation that takes them in any order
ChainCap == 43   \* max_points_per_cluster of the thin building

\* x and y take negative values too; all points lie at one height
XS == (0 - 1) .. MaxCoord
YS == {0 - 1, 0, 1}
ZS == {0}
PointSpace == XS \X YS \X ZS

\* the configurations of the processor that are explored
EpsValues == {1}
MetzEpsValues == {1, 2}
MinPointsValues == {1, 2}
CapValues == {1, 2}
GridSizes == {2, 3}

\* the blobs of Scenario A: their widths, and their number of rows
BlobWidths == {3, 8, 14}
BlobRows == 3

\* the non-empty point sequences of at most n points
PointSets(n) == UNION { [1..k -> PointSpace] : k \in 1..n }

-----------------------------------------------------------------------------
(* Arithmetic helpers *)

Sq(a) == a * a

RECURSIVE Gcd(_, _)
Gcd(a, b) == IF b = 0 THEN a ELSE Gcd(b, a % b)

Lcm(a, b) == (a * b) \div Gcd(a, b)

RECURSIVE LcmSeq(_)
LcmSeq(s) == IF s = << >> THEN 1 ELSE Lcm(Head(s), LcmSeq(Tail(s)))

\* squared Euclidean distance of two 3D points (np.linalg.norm, squared)
Dist2(p, q) == Sq(p[1] - q[1]) + Sq(p[2] - q[2]) + Sq(p[3] - q[3])

\* component-wise sum of the points of a sequence
RECURSIVE SumPts(_)
SumPts(ps) ==
    IF ps = << >> THEN << 0, 0, 0 >>
    ELSE LET r == SumPts(Tail(ps)) IN
         << Head(ps)[1] + r[1], Head(ps)[2] + r[2], Head(ps)[3] + r[3] >>

ScalePt(p, k) == << p[1] * k, p[2] * k, p[3] * k >>

\* the ascending sequence of a finite set of integers (np.where(mask)[0])
RECURSIVE Ascending(_)
Ascending(S) ==
    IF S = {} THEN << >>
    ELSE LET m == CHOOSE x \in S : \A y \in S : x <= y IN
         << m >> \o Ascending(S \ {m})

Range(s) == { s[i] : i \in 1..Len(s) }

\* the sub-sequence points[indices]
Take(ps, idx) == [ k \in 1..Len(idx) |-> ps[idx[k]] ]

-----------------------------------------------------------------------------
(* create_spatial_grid *)

\* a python int division rounding toward zero (not what the code uses)
TruncDiv(x, g) == IF x >= 0 THEN x \div g ELSE 0 - ((0 - x) \div g)

\* np.floor(x / g).astype(int): \div rounds toward minus infinity
FloorDiv(x, g) == x \div g

\* a mutation: the quotients are rounded up
GridKeyCeil(p, g) == << 0 - ((0 - p[1]) \div g), 0 - ((0 - p[2]) \div g) >>
\* (np.floor(x / g), np.floor(y / g))
GridKey(p, g) == << FloorDiv(p[1], g), FloorDiv(p[2], g) >>

LexLess(a, b) == a[1] < b[1] \/ (a[1] = b[1] /\ a[2] < b[2])

\* np.unique(..., axis=0): the distinct rows in lexicographic order
RECURSIVE UniqueRows(_)
UniqueRows(S) ==
    IF S = {} THEN << >>
    ELSE LET m == CHOOSE a \in S : \A b \in S \ {a} : LexLess(a, b) IN
         << m >> \o UniqueRows(S \ {m})

\* the dict {(grid_x, grid_y): indices}, as the sequence of its items
create_spatial_grid(ps, g) ==
    LET unique_cells == UniqueRows({ GridKey(ps[i], g) : i \in 1..Len(ps) })
    IN  [ k \in 1..Len(unique_cells) |->
            [ key     |-> unique_cells[k],
              indices |-> Ascending({ i \in 1..Len(ps) :
                                       GridKey(ps[i], g) = unique_cells[k] }) ] ]

-----------------------------------------------------------------------------
(* DBSCAN, as sklearn.cluster.DBSCAN.fit_predict and open3d's             *)
(* cluster_dbscan compute it.  P is the sequence of points, r2 the squared *)
(* radius in the unit of P.  sklearn counts a point at distance exactly    *)
(* eps as a neighbour (closed = TRUE); for open3d's radius search this     *)
(* depends on the library build, so both are explored.                     *)

\* a radius search with twice the radius
NeighborsWide(P, i, r2, closed) ==
    { j \in 1..Len(P) : Dist2(P[i], P[j]) <= 4 * r2 }

Neighbors(P, i, r2, closed) ==
    { j \in 1..Len(P) : IF closed THEN Dist2(P[i], P[j]) <= r2
                                  ELSE Dist2(P[i], P[j]) < r2 }

\* a point is a core point when it has min_samples neighbours, itself included
CorePoints(P, r2, minPts, closed) ==
    { i \in 1..Len(P) : Cardinality(Neighbors(P, i, r2, closed)) >= minPts }

\* the neighbourhoods of all points, computed once: nb[i] = Neighbors(P, i)
RECURSIVE NeighborSets(_, _, _, _)
NeighborSets(P, r2, closed, i) ==
    IF i > Len(P) THEN << >>
    ELSE << Neighbors(P, i, r2, closed) >> \o NeighborSets(P, r2, closed, i + 1)

\* the points reached from the set M through core points
RECURSIVE Grow(_, _, _)
Grow(nb, core, M) ==
    LET N == M \cup UNION { nb[c] : c \in M \cap core }
    IN  IF N = M THEN M ELSE Grow(nb, core, N)

\* the labelling loop: points in index order, a new label for every core
\* point not yet labelled, given to all unlabelled points reached from it
RECURSIVE DbscanInner(_, _, _, _, _)
DbscanInner(nb, core, i, labels, next) ==
    IF i > Len(nb) THEN labels
    ELSE IF labels[i] # 0 - 1 \/ i \notin core
         THEN DbscanInner(nb, core, i + 1, labels, next)
         ELSE LET M == Grow(nb, core, {i})
                  lab == [ j \in 1..Len(nb) |->
                             IF j \in M /\ labels[j] = 0 - 1 THEN next
                                                            ELSE labels[j] ]
              IN  DbscanInner(nb, core, i + 1, lab, next + 1)

\* labels per point: -1 for noise, 0, 1, ... for the clusters
DBSCAN(P, r2, minPts, closed) ==
    DbscanInner(NeighborSets(P, r2, closed, 1),
                CorePoints(P, r2, minPts, closed),
                1, [ j \in 1..Len(P) |-> 0 - 1 ], 0)

\* np.unique(labels)
UniqueLabels(labels) == Ascending(Range(labels))

\* np.where(labels == label)[0]
LabelMask(labels, label) ==
    Ascending({ j \in 1..Len(labels) : labels[j] = label })

-----------------------------------------------------------------------------
(* downsample_points *)

Identity(n) == [ k \in 1..n |-> k ]

\* all orders in which the elements of the finite set S can be listed
RECURSIVE Orders(_)
Orders(S) ==
    IF S = {} THEN { << >> }
    ELSE UNION { { << x >> \o r : r \in Orders(S \ {x}) } : x \in S }

\* all sequences that take their k-th element from the k-th set
RECURSIVE SeqProduct(_)
SeqProduct(sets) ==
    IF sets = << >> THEN { << >> }
    ELSE { << x >> \o r : x \in Head(sets), r \in SeqProduct(Tail(sets)) }

\* per-axis lower and upper bound of the bounding box
MinBound(ps) ==
    [ a \in 1..3 |-> CHOOSE v \in { ps[i][a] : i \in 1..Len(ps) } :
                        \A i \in 1..Len(ps) : v <= ps[i][a] ]

MaxBound(ps) ==
    [ a \in 1..3 |-> CHOOSE v \in { ps[i][a] : i \in 1..Len(ps) } :
                        \A i \in 1..Len(ps) : v >= ps[i][a] ]

\* the largest voxel index an axis can have: floor(cbrt(target) + 1/2),
\* the largest i with (2i - 1)^3 <= 8 * target
MaxVoxelIndex(target) ==
    CHOOSE i \in 0..(target + 1) :
        /\ (i = 0 \/ (2 * i - 1) * (2 * i - 1) * (2 * i - 1) <= 8 * target)
        /\ \A k \in (i + 1)..(target + 1) :
              (2 * k - 1) * (2 * k - 1) * (2 * k - 1) > 8 * target

\* i - 1/2 <= d * cbrt(target) / diagonal, with D2 the squared diagonal:
\* ((2i - 1)^2 * D2)^3 <= (4 d^2)^3 * target^2, in exact arithmetic
AtLeastVoxel(i, d, D2, target) ==
    LET A == (2 * i - 1) * (2 * i - 1) * D2
        B == 4 * d * d
    IN  i = 0 \/ A <= B \/ A * A * A <= B * B * B * target * target

\* open3d voxel_down_sample: floor((p - (min_bound - voxel_size / 2)) /
\* voxel_size) on one axis, where d = p - min_bound >= 0 and
\* voxel_size = diagonal / cbrt(target)
VoxelIndex(d, D2, target) ==
    CHOOSE i \in 0..MaxVoxelIndex(target) :
        /\ AtLeastVoxel(i, d, D2, target)
        /\ \A k \in (i + 1)..MaxVoxelIndex(target) :
              ~ AtLeastVoxel(k, d, D2, target)

VoxelKey(p, lo, D2, target) ==
    << VoxelIndex(p[1] - lo[1], D2, target),
       VoxelIndex(p[2] - lo[2], D2, target),
       VoxelIndex(p[3] - lo[3], D2, target) >>

\* the voxel of every point
RECURSIVE VoxelKeys(_, _, _, _)
VoxelKeys(ps, lo, D2, target) ==
    IF ps = << >> THEN << >>
    ELSE << VoxelKey(Head(ps), lo, D2, target) >>
         \o VoxelKeys(Tail(ps), lo, D2, target)

\* the points of one voxel, as indices into ps
VoxelMembers(keys, v) == Ascending({ i \in 1..Len(keys) : keys[i] = v })

\* the mean of the points of each listed voxel, multiplied by scale
RECURSIVE VoxelMeans(_, _, _, _)
VoxelMeans(ps, keys, vs, scale) ==
    IF vs = << >> THEN << >>
    ELSE LET mem == VoxelMembers(keys, Head(vs))
         IN  << ScalePt(SumPts(Take(ps, mem)), scale \div Len(mem)) >>
             \o VoxelMeans(ps, keys, Tail(vs), scale)

\* cKDTree.query: the indices of the original points nearest to the reduced
\* point r (given with denominator scale)
Nearest(ps, r, scale) ==
    { i \in 1..Len(ps) :
        \A j \in 1..Len(ps) :
            Dist2(ScalePt(ps[i], scale), r) <= Dist2(ScalePt(ps[j], scale), r) }

RECURSIVE NearestSets(_, _, _)
NearestSets(ps, sample, scale) ==
    IF sample = << >> THEN << >>
    ELSE << Nearest(ps, Head(sample), scale) >>
         \o NearestSets(ps, Tail(sample), scale)

\* the results whose reduced points are listed in the order `sample`
ResultsInOrder(ps, sample, scale) ==
    { [ raised |-> FALSE, sample |-> sample, scale |-> scale, indices |-> f ] :
      f \in SeqProduct(NearestSets(ps, sample, scale)) }

\* the voxel path handing back the cloud it was given instead of pcd_down
VoxelDownsampleKeepsAll(ps, target) ==
    { [ raised |-> FALSE, sample |-> ps, scale |-> 1,
        indices |-> Identity(Len(ps)) ] }

\* The possible results of the voxel path.  The reduced points are the means
\* of the voxels: sample holds them multiplied by scale.  The order of the
\* voxels (a hash map) and the choice among equally near original points are
\* not fixed by the libraries.  raised: open3d rejects a voxel size of 0 (all
\* points equal) with a RuntimeError.
VoxelDownsample(ps, target) ==
    LET lo == MinBound(ps)
        D2 == Dist2(MaxBound(ps), lo)
        keys == VoxelKeys(ps, lo, D2, target)
        voxels == Range(keys)
        scale == LcmSeq([ i \in 1..Len(ps) |->
                            Len(VoxelMembers(keys, keys[i])) ])
    IN  IF D2 = 0
        THEN { [ raised |-> TRUE, sample |-> << >>, scale |-> 1,
                 indices |-> << >> ] }
        ELSE UNION { ResultsInOrder(ps, VoxelMeans(ps, keys, order, scale),
                                    scale)
                     : order \in Orders(voxels) }

\* downsample_points without its early return
DownsampleNoPassThrough(ps, target) == VoxelDownsample(ps, target)

\* (points_downsampled, indices_originaux): the set of possible results
downsample_points(ps, target) ==
    IF Len(ps) <= target
    THEN { [ raised |-> FALSE, sample |-> ps, scale |-> 1,
             indices |-> Identity(Len(ps)) ] }
    ELSE VoxelDownsample(ps, target)

-----------------------------------------------------------------------------
(* merge_adjacent_clusters.  A cluster is the sequence of the indices (into *)
(* ps) of its points.                                                      *)

RECURSIVE Concat(_)
Concat(ss) == IF ss = << >> THEN << >> ELSE Head(ss) \o Concat(Tail(ss))

\* common denominator of the means of the clusters
CenterScale(clusters) == LcmSeq([ i \in 1..Len(clusters) |-> Len(clusters[i]) ])

\* centers = [c.mean(axis=0) for c in clusters], multiplied by CenterScale
Centers(ps, clusters) ==
    [ i \in 1..Len(clusters) |->
        ScalePt(SumPts(Take(ps, clusters[i])),
                CenterScale(clusters) \div Len(clusters[i])) ]

\* the centroid clustering with the radius eps * 3
CenterLabelsWide(ps, clusters, e) ==
    DBSCAN(Centers(ps, clusters), Sq(3 * e * CenterScale(clusters)), 1, TRUE)

\* a mutation: one pass over the centroids, each taking the label of the
\* first earlier centroid within eps * 2
CenterLabelsGreedy(ps, clusters, e) ==
    LET c == Centers(ps, clusters)
        r2 == Sq(2 * e * CenterScale(clusters))
        near(i) == { j \in 1..(i - 1) : Dist2(c[i], c[j]) <= r2 }
        lab[i \in 1..Len(clusters)] ==
            IF near(i) = {}
            THEN Cardinality({ j \in 1..(i - 1) : near(j) = {} })
            ELSE lab[CHOOSE j \in near(i) : \A k \in near(i) : j <= k]
    IN  [ i \in 1..Len(clusters) |-> lab[i] ]

\* DBSCAN(eps=eps * 2, min_samples=1).fit_predict(centers)
CenterLabels(ps, clusters, e) ==
    DBSCAN(Centers(ps, clusters), Sq(2 * e * CenterScale(clusters)), 1, TRUE)

\* a mutation: only the first cluster of each label is kept
MergeFirstOfLabel(clusters, labels) ==
    LET u == UniqueLabels(labels)
    IN  [ k \in 1..Len(u) |-> clusters[LabelMask(labels, u[k])[1]] ]
\* the loop over np.unique(labels): np.vstack of the clusters of each label
MergeByLabel(clusters, labels) ==
    LET u == UniqueLabels(labels)
    IN  [ k \in 1..Len(u) |-> Concat(Take(clusters, LabelMask(labels, u[k]))) ]

\* merged = [] started as merged = list(clusters) instead
MergeKeepingInputs(ps, clusters, e) ==
    IF Len(clusters) <= 1 THEN clusters
    ELSE clusters \o MergeByLabel(clusters, CenterLabels(ps, clusters, e))

merge_adjacent_clusters(ps, clusters, e) ==
    IF Len(clusters) <= 1 THEN clusters
    ELSE MergeByLabel(clusters, CenterLabels(ps, clusters, e))

-----------------------------------------------------------------------------
(* segment_buildings_optimized: one iteration of the loop over grid cells  *)

\* len(cell_points) > self.max_points_per_cluster
NeedsDownsample(n, cap) == n > cap

\* the extension with the radius eps instead of eps * 2
ExtendedMaskEps(cell_points, sample, scale, mask, e) ==
    LET m == Len(mask)
        center == SumPts(Take(sample, mask))
    IN  Ascending({ j \in 1..Len(cell_points) :
            Dist2(ScalePt(cell_points[j], m * scale), center)
                < Sq(e * m * scale) })

\* cluster_center = cell_points_sample[cluster_mask].mean(axis=0);
\* distances = norm(cell_points - cluster_center); distances < eps * 2.
\* center is the mean multiplied by m * scale.
ExtendedMask(cell_points, sample, scale, mask, e) ==
    LET m == Len(mask)
        center == SumPts(Take(sample, mask))
    IN  Ascending({ j \in 1..Len(cell_points) :
            Dist2(ScalePt(cell_points[j], m * scale), center)
                < Sq(2 * e * m * scale) })

\* the points of the cluster of one label, as indices into the cell
ClusterPoints(cell_points, it, label, e) ==
    IF it.downsampled
    THEN ExtendedMask(cell_points, it.sample, it.scale,
                      LabelMask(it.labels, label), e)
    ELSE LabelMask(it.labels, label)

\* a loop that skips no label
SkipsNone(label) == FALSE

\* if label == -1: continue
IsNoise(label) == label = 0 - 1

\* the size test that lets every label group through
KeepsAny(cluster_points, mp) == TRUE

\* len(cluster_points) >= min_points
Keeps(cluster_points, mp) == Len(cluster_points) >= mp

\* the loop over np.unique(labels): the clusters appended to all_clusters,
\* each with the label it came from; ls is the rest of the labels
RECURSIVE ExtractClusters(_, _, _, _, _)
ExtractClusters(ps, it, ls, e, mp) ==
    IF ls = << >> THEN << >>
    ELSE LET label == Head(ls)
             rest == ExtractClusters(ps, it, Tail(ls), e, mp)
             cluster_points ==
                 Take(it.indices,
                      ClusterPoints(Take(ps, it.indices), it, label, e))
         IN  IF IsNoise(label) THEN rest
             ELSE IF Keeps(cluster_points, mp)
                  THEN << [ pts |-> cluster_points, label |-> label ] >> \o rest
                  ELSE rest

\* what one iteration works on: the sample that is clustered
Samples(cell_points, cap) ==
    IF NeedsDownsample(Len(cell_points), cap)
    THEN { [ downsampled |-> TRUE, raised |-> ds.raised, sample |-> ds.sample,
             scale |-> ds.scale, sample_indices |-> ds.indices ] :
           ds \in downsample_points(cell_points, cap) }
    ELSE { [ downsampled |-> FALSE, raised |-> FALSE, sample |-> cell_points,
             scale |-> 1, sample_indices |-> << >> ] }

\* the record of one iteration, with the labels of the clustering
Iteration(cell, sm, e, mp) ==
    [ key |-> cell.key, indices |-> cell.indices,
      downsampled |-> sm.downsampled, sample |-> sm.sample,
      scale |-> sm.scale, sample_indices |-> sm.sample_indices,
      labels |-> DBSCAN(sm.sample, Sq(e * sm.scale), mp, TRUE) ]

-----------------------------------------------------------------------------
(* The state machine *)

\* no run of process_all
IdleBatch ==
    /\ proc = "none"
    /\ input_dir = {}
    /\ tiles = << >>
    /\ laz_files = << >>
    /\ file_i = 0
    /\ file_buildings = 0
    /\ bldg_i = 0
    /\ building_counter = 0
    /\ metadata = << >>
    /\ all_buildings = << >>
    /\ exported = << >>
    /\ merged_model = << >>
    /\ metadata_file = << >>
    /\ warnings = << >>
    /\ segment_calls = << >>
    /\ failed = << >>
    /\ batch_pc = "idle"

\* no run of extract_planes_ransac
IdleRansac ==
    /\ ransac_proc = "none"
    /\ ransac_points = << >>
    /\ max_planes = 0
    /\ ransac_min_points = 0
    /\ remaining_pcd = << >>
    /\ planes = << >>
    /\ fit_log = << >>
    /\ ransac_i = 0
    /\ ransac_pc = "idle"

\* a mesh without vertices: o3d.geometry.TriangleMesh()
EmptyMesh == [ vertices |-> << >>, triangles |-> << >> ]

\* no run of create_building_mesh
IdleMesh ==
    /\ mesh_entry = "none"
    /\ mesh_points = << >>
    /\ mesh_planes = << >>
    /\ plane_i = 0
    /\ combined_mesh = EmptyMesh
    /\ plane_log = << >>
    /\ mesh = EmptyMesh
    /\ mesh_source = "none"
    /\ mesh_pc = "idle"

\* a call on an enumerated point set
InitEnumerated ==
    /\ entry \in { "segment_buildings_optimized",
                   "segment_buildings_by_proximity",
                   "downsample_points" }
    /\ points \in PointSets(MaxPts)
    /\ eps \in IF entry = "downsample_points" THEN {0}
               ELSE IF entry = "segment_buildings_by_proximity"
                    THEN MetzEpsValues ELSE EpsValues
    /\ min_points \in IF entry = "downsample_points" THEN {0}
                      ELSE MinPointsValues
    /\ grid_size \in IF entry = "segment_buildings_optimized" THEN GridSizes
                     ELSE {0}
    /\ max_points_per_cluster \in
          IF entry = "segment_buildings_by_proximity" THEN {0} ELSE CapValues
    /\ radius_closed \in
          IF entry = "segment_buildings_by_proximity" THEN BOOLEAN ELSE {TRUE}

\* the lattice points of the block [-a, b-1] x [-c, d-1], row by row
BlockPoints(a, b, c, d) ==
    [ k \in 1..((a + b) * (c + d)) |->
        << ((k - 1) % (a + b)) - a, ((k - 1) \div (a + b)) - c, 0 >> ]

\* Scenario B: one block of points at spacing 1 around the corner (0, 0) of
\* four grid cells, a x c points of it in the cell (-1, -1), b x c in
\* (0, -1), a x d in (-1, 0) and b x d in (0, 0); no cell is downsampled
InitScenarioB ==
    /\ entry = "segment_buildings_optimized"
    /\ \E a, b, c, d \in 1..MaxArm : points = BlockPoints(a, b, c, d)
    /\ eps = 1
    /\ min_points \in MinPointsValues
    /\ grid_size = MaxArm
    /\ max_points_per_cluster = LargeCap
    /\ radius_closed = TRUE

\* the lattice points of the w x h block whose lower left corner is (x0, y0)
BlobPoints(x0, y0, w, h) ==
    [ k \in 1..(w * h) |-> << x0 + ((k - 1) % w), y0 + ((k - 1) \div w), 0 >> ]

\* Scenario A: two equal blobs of points at spacing 1, the second 50 to the
\* right of the first, clustered with eps = 3 and min_points = 10.  The first
\* blob has s of its columns (none, one or half of them) left of the cell
\* boundary x = 0 and t of its rows below y = 0; with the cell size 25 the
\* boundary x = 50 cuts the second blob in the same way.  The cap is the default, so no cell is
\* downsampled.
InitScenarioA ==
    /\ entry = "segment_buildings_optimized"
    /\ \E w \in BlobWidths : \E s \in {0, 1, w \div 2} : \E t \in 0..1 :
          points = BlobPoints(0 - s, 0 - t, w, BlobRows) \o
                   BlobPoints(50 - s, 0 - t, w, BlobRows)
    /\ eps = 3
    /\ min_points = 10
    /\ grid_size \in {25, 100}
    /\ max_points_per_cluster = 50000
    /\ radius_closed = TRUE

Reverse(s) == [ k \in 1..Len(s) |-> s[Len(s) + 1 - k] ]

\* a foot of h rows of 3 lattice points (y = 0..h-1), one point (1, h) above
\* the middle of the foot, and a top row of 3 points at y = h + 1
Beam(h) ==
    [ k \in 1..(3 * h + 4) |->
        IF k <= 3 * h THEN << (k - 1) % 3, (k - 1) \div 3, 0 >>
        ELSE IF k = 3 * h + 1 THEN << 1, h, 0 >>
        ELSE << k - 3 * h - 2, h + 1, 0 >> ]

\* The beam scenario: the joining point (1, h) is a neighbour of the middle
\* of the foot and of the middle of the top row and is no core point for
\* min_points = 4, so the group found second does not get it and the top row
\* (or a foot of one row) is a label group of 3 points.  One grid cell.
InitBeam ==
    /\ entry \in { "segment_buildings_optimized",
                   "segment_buildings_by_proximity" }
    /\ \E h \in 1..MaxFoot :
          /\ points \in { Beam(h), Reverse(Beam(h)) }
          /\ grid_size = IF entry = "segment_buildings_optimized"
                         THEN h + 2 ELSE 0
    /\ eps = 1
    /\ min_points = 4
    /\ max_points_per_cluster =
          IF entry = "segment_buildings_optimized" THEN LargeCap ELSE 0
    /\ radius_closed = TRUE

\* a direct call of downsample_points on a block of two rows of lattice points
InitBlockDirect ==
    /\ entry = "downsample_points"
    /\ \E a, b \in 1..MaxArm, d \in 1..2 : points = BlockPoints(a, b, 1, d)
    /\ eps = 0
    /\ min_points = 0
    /\ grid_size = 0
    /\ max_points_per_cluster \in CapValues
    /\ radius_closed = TRUE

Init ==
    /\ \/ InitEnumerated
       \/ InitScenarioA
       \/ InitScenarioB
       \/ InitBeam
       \/ InitBlockDirect
    /\ pc = "start"
    /\ grid_cells = << >>
    /\ cell_i = 0
    /\ all_clusters = << >>
    /\ cluster_origin = << >>
    /\ cell_log = << >>
    /\ buildings = << >>
    /\ merge_labels = << >>
    /\ merge_calls = 0
    /\ IdleBatch
    /\ IdleRansac
    /\ IdleMesh

\* grid_cells = self.create_spatial_grid(points)
CreateSpatialGrid ==
    /\ UNCHANGED not_seg_vars
    /\ entry = "segment_buildings_optimized"
    /\ pc = "start"
    /\ grid_cells' = create_spatial_grid(points, grid_size)
    /\ pc' = "cells"
    /\ UNCHANGED << config, cell_i, all_clusters,
                    cluster_origin, cell_log, buildings, merge_labels,
                    merge_calls >>

\* one iteration of `for (cx, cy), indices in grid_cells.items()`
ClusterCell ==
    /\ UNCHANGED not_seg_vars
    /\ pc = "cells"
    /\ cell_i < Len(grid_cells)
    /\ LET cell == grid_cells[cell_i + 1]
           cell_points == Take(points, cell.indices)
       IN  \E sm \in Samples(cell_points, max_points_per_cluster) :
             IF sm.raised
             THEN /\ pc' = "raised"
                  /\ UNCHANGED << cell_i, all_clusters, cluster_origin,
                                  cell_log >>
             ELSE LET it == Iteration(cell, sm, eps, min_points)
                      new == ExtractClusters(points, it,
                                 UniqueLabels(it.labels), eps, min_points)
                  IN  /\ all_clusters' = all_clusters \o
                             [ k \in 1..Len(new) |-> new[k].pts ]
                      /\ cluster_origin' = cluster_origin \o
                             [ k \in 1..Len(new) |->
                                 [ cell |-> cell_i + 1, label |-> new[k].label ] ]
                      /\ cell_log' = Append(cell_log, it)
                      /\ cell_i' = cell_i + 1
                      /\ pc' = IF cell_i + 1 = Len(grid_cells) THEN "merge"
                                                               ELSE "cells"
    /\ UNCHANGED << config, grid_cells, buildings,
                    merge_labels, merge_calls >>

\* if len(all_clusters) > 0: buildings = self.merge_adjacent_clusters(...)
MergeClusters ==
    /\ UNCHANGED not_seg_vars
    /\ pc = "merge"
    /\ Len(all_clusters) > 0
    /\ buildings' = merge_adjacent_clusters(points, all_clusters, eps)
    /\ merge_labels' = IF Len(all_clusters) <= 1 THEN << >>
                       ELSE CenterLabels(points, all_clusters, eps)
    /\ merge_calls' = merge_calls + 1
    /\ pc' = "done"
    /\ UNCHANGED << config, grid_cells, cell_i, all_clusters,
                    cluster_origin, cell_log >>

\* a mutation: the merge is called on the empty list too
NoClustersMerges ==
    /\ UNCHANGED not_seg_vars
    /\ pc = "merge"
    /\ Len(all_clusters) = 0
    /\ buildings' = << >>
    /\ merge_calls' = merge_calls + 1
    /\ pc' = "done"
    /\ UNCHANGED << config, grid_cells, cell_i, all_clusters,
                    cluster_origin, cell_log, merge_labels >>
\* else: buildings = []
NoClusters ==
    /\ UNCHANGED not_seg_vars
    /\ pc = "merge"
    /\ Len(all_clusters) = 0
    /\ buildings' = << >>
    /\ pc' = "done"
    /\ UNCHANGED << config, grid_cells, cell_i, all_clusters,
                    cluster_origin, cell_log, merge_labels, merge_calls >>

\* MetzBuildingProcessor.segment_buildings_by_proximity: one clustering of
\* all points with open3d, every label group of min_points points is kept
SegmentByProximity ==
    /\ UNCHANGED not_seg_vars
    /\ entry = "segment_buildings_by_proximity"
    /\ pc = "start"
    /\ LET it == [ key |-> << 0, 0 >>, indices |-> Identity(Len(points)),
                   downsampled |-> FALSE, sample |-> points, scale |-> 1,
                   sample_indices |-> << >>,
                   labels |-> DBSCAN(points, Sq(eps), min_points,
                                    radius_closed) ]
           new == ExtractClusters(points, it, UniqueLabels(it.labels), eps,
                                  min_points)
       IN  /\ buildings' = [ k \in 1..Len(new) |-> new[k].pts ]
           /\ cluster_origin' = [ k \in 1..Len(new) |->
                                    [ cell |-> 1, label |-> new[k].label ] ]
           /\ cell_log' = << it >>
    /\ pc' = "done"
    /\ UNCHANGED << config, grid_cells, cell_i, all_clusters,
                    merge_labels, merge_calls >>

\* a direct call downsample_points(points, max_points_per_cluster)
CallDownsample ==
    /\ UNCHANGED not_seg_vars
    /\ entry = "downsample_points"
    /\ pc = "start"
    /\ \E ds \in downsample_points(points, max_points_per_cluster) :
          /\ cell_log' = << [ key |-> << 0, 0 >>,
                              indices |-> Identity(Len(points)),
                              downsampled |-> TRUE, sample |-> ds.sample,
                              scale |-> ds.scale,
                              sample_indices |-> ds.indices,
                              labels |-> << >> ] >>
          /\ pc' = IF ds.raised THEN "raised" ELSE "done"
    /\ UNCHANGED << config, grid_cells, cell_i, all_clusters,
                    cluster_origin, buildings, merge_labels, merge_calls >>

Next ==
    \/ CreateSpatialGrid
    \/ ClusterCell
    \/ MergeClusters
    \/ NoClusters
    \/ SegmentByProximity
    \/ CallDownsample

Spec == Init /\ [][Next]_vars

\* The loop over the grid cells taken in any order, as a pool of workers
\* that each cluster one cell at a time would complete them: the items of
\* grid_cells are listed in the order in which the cells are clustered.
CreateSpatialGridAnyOrder ==
    /\ UNCHANGED not_seg_vars
    /\ entry = "segment_buildings_optimized"
    /\ pc = "start"
    /\ \E order \in Orders(Range(create_spatial_grid(points, grid_size))) :
          grid_cells' = order
    /\ pc' = "cells"
    /\ UNCHANGED << config, cell_i, all_clusters,
                    cluster_origin, cell_log, buildings, merge_labels,
                    merge_calls >>

\* the segmentations of Init whose points occupy several cells, MaxCells at
\* most
InitAnyOrder ==
    /\ Init
    /\ entry = "segment_buildings_optimized"
    /\ Len(create_spatial_grid(points, grid_size)) \in 2..MaxCells

NextAnyOrder ==
    \/ CreateSpatialGridAnyOrder
    \/ ClusterCell
    \/ MergeClusters
    \/ NoClusters

SpecAnyOrder == InitAnyOrder /\ [][NextAnyOrder]_vars

\* A long thin building in one downsampled cell: five places one eps apart
\* on a line, one point at each but the middle one, which holds the rest of
\* the ChainCap + 1 points.  The voxels of the downsampling hold one place
\* each, so the reduced points are the five places and one cluster.
ChainPoints ==
    << << 0, 0, 0 >>, << 1, 0, 0 >> >> \o
    [ k \in 1..(ChainCap - 3) |-> << 2, 0, 0 >> ] \o
    << << 3, 0, 0 >>, << 4, 0, 0 >> >>

InitChain ==
    /\ entry = "segment_buildings_optimized"
    /\ points = ChainPoints
    /\ eps = 1
    /\ min_points \in MinPointsValues
    /\ grid_size = 5
    /\ max_points_per_cluster = ChainCap
    /\ radius_closed = TRUE
    /\ pc = "start"
    /\ grid_cells = << >>
    /\ cell_i = 0
    /\ all_clusters = << >>
    /\ cluster_origin = << >>
    /\ cell_log = << >>
    /\ buildings = << >>
    /\ merge_labels = << >>
    /\ merge_calls = 0
    /\ IdleBatch
    /\ IdleRansac
    /\ IdleMesh

NextChain ==
    \/ CreateSpatialGrid
    \/ ClusterCell
    \/ MergeClusters

SpecChain == InitChain /\ [][NextChain]_vars

-----------------------------------------------------------------------------
(* process_all *)

\* no segmentation under way
IdleSeg ==
    /\ entry = "none"
    /\ points = << >>
    /\ eps = 1
    /\ min_points = 1
    /\ grid_size = 1
    /\ max_points_per_cluster = 1
    /\ radius_closed = TRUE
    /\ pc = "idle"
    /\ grid_cells = << >>
    /\ cell_i = 0
    /\ all_clusters = << >>
    /\ cluster_origin = << >>
    /\ cell_log = << >>
    /\ buildings = << >>
    /\ merge_labels = << >>
    /\ merge_calls = 0

\* the files a directory may hold, a name as its dot-separated parts
FileNames == { << "a", "copc", "laz" >>, << "b", "laz" >>, << "notes", "txt" >> }

\* the parts of the names in the order of their strings
NameParts == << "a", "b", "copc", "laz", "notes", "txt" >>

PartRank(s) == CHOOSE k \in 1..Len(NameParts) : NameParts[k] = s

\* the order of Path objects
RECURSIVE PathLess(_, _)
PathLess(f, g) ==
    IF g = << >> THEN FALSE
    ELSE IF f = << >> THEN TRUE
    ELSE IF Head(f) = Head(g) THEN PathLess(Tail(f), Tail(g))
    ELSE PartRank(Head(f)) < PartRank(Head(g))

\* sorted(list(S)) for a set of paths
RECURSIVE SortedPaths(_)
SortedPaths(S) ==
    IF S = {} THEN << >>
    ELSE LET f == CHOOSE x \in S : \A y \in S \ {x} : PathLess(x, y) IN
         << f >> \o SortedPaths(S \ {f})

\* the name ends with the parts of the suffix
EndsWith(f, suffix) ==
    /\ Len(f) > Len(suffix)
    /\ SubSeq(f, Len(f) - Len(suffix) + 1, Len(f)) = suffix

\* self.input_dir.glob("*" + suffix)
Glob(dir, suffix) == { f \in dir : EndsWith(f, suffix) }

\* MetzBuildingProcessor.find_laz_files: the two listings one after the
\* other, each in the order the directory yields
MetzFindLazFiles(dir) ==
    { a \o b : a \in Orders(Glob(dir, << "laz" >>)),
               b \in Orders(Glob(dir, << "copc", "laz" >>)) }

\* OptimizedBuildingProcessor.find_laz_files: a set of the two listings,
\* sorted
OptimizedFindLazFiles(dir) ==
    { SortedPaths(Glob(dir, << "laz" >>) \cup Glob(dir, << "copc", "laz" >>)) }

find_laz_files(p, dir) ==
    IF p = "MetzBuildingProcessor" THEN MetzFindLazFiles(dir)
    ELSE OptimizedFindLazFiles(dir)

\* the classification code of a building point
BuildingClass == 6

\* the classifications of the points of a file
TileClassifications == { << >>, << 2, 2 >>, << 6, 2, 6 >> }

\* the most buildings the segmentation of a file returns
MaxSegments == 2

\* extract_buildings: the points whose classification is 6
extract_buildings(classifications) ==
    { i \in 1..Len(classifications) : classifications[i] = BuildingClass }

\* what a file holds: the classifications of its points, and what the
\* segmentation of its building points returns (-1: the segmentation raises,
\* as downsample_points can)
Tiles(p) ==
    { t \in [ classifications : TileClassifications,
              segments : (0 - 1)..MaxSegments ] :
        /\ t.segments <= Cardinality(extract_buildings(t.classifications))
        /\ t.segments = 0 - 1 =>
              /\ p = "OptimizedBuildingProcessor"
              /\ extract_buildings(t.classifications) # {} }

\* the steps of the reconstruction of one building, in their order
Steps(p) ==
    IF p = "MetzBuildingProcessor"
    THEN << "extract_planes_ransac", "create_building_mesh",
            "compute_building_metadata", "export_to_glb" >>
    ELSE << "detect_courtyard_2d", "validate_courtyards",
            "extract_planes_ransac", "create_building_mesh_with_courtyards",
            "compute_building_metadata", "export_to_glb" >>

\* the step that raises, if one does
Outcomes(p) == {"ok"} \cup Range(Steps(p))

\* the dict _save_metadata dumps
MetadataDict(p, md) ==
    IF p = "MetzBuildingProcessor"
    THEN [ buildings |-> md,
           total_buildings |-> Len(md),
           processing_params |->
               [ distance_threshold |-> "self.distance_threshold",
                 input_dir |-> "self.input_dir",
                 output_dir |-> "self.output_dir" ] ]
    ELSE [ buildings |-> md,
           total_buildings |-> Len(md),
           total_courtyards |-> Len(SelectSeq(md, LAMBDA r : r.num_courtyards = 1)),
           processing_params |->
               [ distance_threshold |-> "self.distance_threshold",
                 dbscan_eps |-> "self.dbscan_eps",
                 dbscan_min_points |-> "self.dbscan_min_points",
                 grid_size |-> "self.grid_size",
                 max_points_per_cluster |-> "self.max_points_per_cluster" ] ]

\* a processor on a directory
InitBatch ==
    /\ IdleSeg
    /\ IdleRansac
    /\ IdleMesh
    /\ proc \in {"MetzBuildingProcessor", "OptimizedBuildingProcessor"}
    /\ input_dir \in SUBSET FileNames
    /\ tiles \in [ Glob(input_dir, << "laz" >>) -> Tiles(proc) ]
    /\ laz_files = << >>
    /\ file_i = 0
    /\ file_buildings = 0
    /\ bldg_i = 0
    /\ building_counter = 0
    /\ metadata = << >>
    /\ all_buildings = << >>
    /\ exported = << >>
    /\ merged_model = << >>
    /\ metadata_file = << >>
    /\ warnings = << >>
    /\ segment_calls = << >>
    /\ failed = << >>
    /\ batch_pc = "start"

\* laz_files = self.find_laz_files(); if not laz_files: warning; return
FindLazFiles ==
    /\ batch_pc = "start"
    /\ \E found \in find_laz_files(proc, input_dir) :
          /\ laz_files' = found
          /\ IF found = << >>
             THEN /\ warnings' = Append(warnings,
                         [ file |-> << >>,
                           message |-> "Aucun fichier .laz" ])
                  /\ batch_pc' = "done"
             ELSE /\ batch_pc' = "file"
                  /\ UNCHANGED warnings
    /\ UNCHANGED << not_batch_vars, proc, input_dir, tiles, file_i, file_buildings,
                    bldg_i, building_counter, metadata, all_buildings,
                    exported, merged_model, metadata_file, segment_calls,
                    failed >>

\* a mutation: the loop over laz_files is left at the file
SkipFileBreaks ==
    /\ batch_pc = "file"
    /\ file_i < Len(laz_files)
    /\ LET laz_file == laz_files[file_i + 1]
           building_points == extract_buildings(tiles[laz_file].classifications)
       IN  /\ Cardinality(building_points) = 0
           /\ warnings' = Append(warnings,
                  [ file |-> laz_file,
                    message |-> "Aucun point de batiment" ])
    /\ file_i' = Len(laz_files)
    /\ UNCHANGED << not_batch_vars, proc, input_dir, tiles, laz_files,
                    file_buildings, bldg_i, building_counter, metadata,
                    all_buildings, exported, merged_model, metadata_file,
                    segment_calls, failed, batch_pc >>
\* an iteration of the loop over laz_files whose file has no building point:
\* warning; continue
SkipFile ==
    /\ batch_pc = "file"
    /\ file_i < Len(laz_files)
    /\ LET laz_file == laz_files[file_i + 1]
           building_points == extract_buildings(tiles[laz_file].classifications)
       IN  /\ Cardinality(building_points) = 0
           /\ warnings' = Append(warnings,
                  [ file |-> laz_file,
                    message |-> "Aucun point de batiment" ])
    /\ file_i' = file_i + 1
    /\ UNCHANGED << not_batch_vars, proc, input_dir, tiles, laz_files,
                    file_buildings, bldg_i, building_counter, metadata,
                    all_buildings, exported, merged_model, metadata_file,
                    segment_calls, failed, batch_pc >>

\* an iteration of the loop over laz_files whose file has building points,
\* up to the loop over its buildings
SegmentFile ==
    /\ batch_pc = "file"
    /\ file_i < Len(laz_files)
    /\ LET laz_file == laz_files[file_i + 1]
           tile == tiles[laz_file]
           building_points == extract_buildings(tile.classifications)
       IN  /\ Cardinality(building_points) # 0
           /\ segment_calls' = Append(segment_calls, file_i + 1)
           /\ IF tile.segments = 0 - 1
              THEN /\ batch_pc' = "raised"
                   /\ UNCHANGED << file_i, file_buildings, bldg_i >>
              ELSE IF tile.segments = 0
              THEN /\ file_i' = file_i + 1
                   /\ UNCHANGED << file_buildings, bldg_i, batch_pc >>
              ELSE /\ file_buildings' = tile.segments
                   /\ bldg_i' = 0
                   /\ batch_pc' = "building"
                   /\ UNCHANGED file_i
    /\ UNCHANGED << not_batch_vars, proc, input_dir, tiles, laz_files,
                    building_counter, metadata, all_buildings, exported,
                    merged_model, metadata_file, warnings, failed >>

\* the position after the body of the loop over the buildings
AfterBuilding ==
    IF bldg_i + 1 = file_buildings
    THEN /\ file_i' = file_i + 1
         /\ bldg_i' = bldg_i + 1
         /\ batch_pc' = "file"
    ELSE /\ bldg_i' = bldg_i + 1
         /\ UNCHANGED << file_i, batch_pc >>

\* a mutation: the id is the index of the building in its file
BuildingMetadataPerFile(p, id, laz_file, courtyards) ==
    IF p = "MetzBuildingProcessor"
    THEN [ id |-> bldg_i + 1, file |-> laz_file ]
    ELSE [ id |-> bldg_i + 1, file |-> laz_file,
           num_courtyards |-> courtyards ]
\* the record compute_building_metadata returns
BuildingMetadata(p, id, laz_file, courtyards) ==
    IF p = "MetzBuildingProcessor"
    THEN [ id |-> id, file |-> laz_file ]
    ELSE [ id |-> id, file |-> laz_file, num_courtyards |-> courtyards ]

\* MetzBuildingProcessor: the body of the loop over the buildings; an
\* exception leaves process_all, but for one of the GLB writer when the OBJ
\* writer succeeds
MetzBuilding(outcome, obj_ok) ==
    LET id == building_counter + 1
        record == BuildingMetadata(proc, id, laz_files[file_i + 1], 0)
    IN  /\ building_counter' = id
        /\ failed' = IF outcome = "ok" THEN failed
                     ELSE Append(failed, [ id |-> id, step |-> outcome ])
        /\ metadata' = IF outcome \in {"ok", "export_to_glb"}
                       THEN Append(metadata, record) ELSE metadata
        /\ IF outcome = "ok" \/ (outcome = "export_to_glb" /\ obj_ok)
           THEN /\ exported' = Append(exported,
                       [ id |-> id,
                         suffix |-> IF outcome = "ok" THEN "glb" ELSE "obj" ])
                /\ all_buildings' = Append(all_buildings, id)
                /\ AfterBuilding
           ELSE /\ batch_pc' = "raised"
                /\ UNCHANGED << exported, all_buildings, file_i, bldg_i >>

\* a mutation: the record is appended before the steps that may raise
OptimizedBuildingRecordsFirst(outcome, courtyards) ==
    LET id == building_counter + 1
        record == BuildingMetadata(proc, id, laz_files[file_i + 1], courtyards)
    IN  /\ building_counter' = id
        /\ failed' = IF outcome = "ok" THEN failed
                     ELSE Append(failed, [ id |-> id, step |-> outcome ])
        /\ metadata' = Append(metadata, record)
        /\ IF outcome \in {"ok", "export_to_glb"}
           THEN /\ exported' = IF outcome = "ok"
                               THEN Append(exported,
                                        [ id |-> id, suffix |-> "glb" ])
                               ELSE exported
                /\ all_buildings' = Append(all_buildings, id)
           ELSE UNCHANGED << exported, all_buildings >>
        /\ AfterBuilding
\* OptimizedBuildingProcessor: the body of the loop over the buildings; the
\* try block ends at the step that raises, export_to_glb catches what its
\* writer raises
OptimizedBuilding(outcome, courtyards) ==
    LET id == building_counter + 1
        record == BuildingMetadata(proc, id, laz_files[file_i + 1], courtyards)
    IN  /\ building_counter' = id
        /\ failed' = IF outcome = "ok" THEN failed
                     ELSE Append(failed, [ id |-> id, step |-> outcome ])
        /\ IF outcome \in {"ok", "export_to_glb"}
           THEN /\ metadata' = Append(metadata, record)
                /\ exported' = IF outcome = "ok"
                               THEN Append(exported,
                                        [ id |-> id, suffix |-> "glb" ])
                               ELSE exported
                /\ all_buildings' = Append(all_buildings, id)
           ELSE UNCHANGED << metadata, exported, all_buildings >>
        /\ AfterBuilding

\* one iteration of the loop over the buildings of a file
ProcessBuilding ==
    /\ batch_pc = "building"
    /\ bldg_i < file_buildings
    /\ \E outcome \in Outcomes(proc) :
          IF proc = "MetzBuildingProcessor"
          THEN \E obj_ok \in BOOLEAN : MetzBuilding(outcome, obj_ok)
          ELSE \E courtyards \in 0..1 : OptimizedBuilding(outcome, courtyards)
    /\ UNCHANGED << not_batch_vars, proc, input_dir, tiles, laz_files,
                    file_buildings, merged_model, metadata_file, warnings,
                    segment_calls >>

\* after the loop over laz_files:
\* if all_buildings: self._create_merged_model(all_buildings)
\* self._save_metadata()
Summary ==
    /\ batch_pc = "file"
    /\ file_i = Len(laz_files)
    /\ merged_model' = IF all_buildings # << >> THEN all_buildings
                                                ELSE merged_model
    /\ metadata_file' = MetadataDict(proc, metadata)
    /\ batch_pc' = "done"
    /\ UNCHANGED << not_batch_vars, proc, input_dir, tiles, laz_files, file_i,
                    file_buildings, bldg_i, building_counter, metadata,
                    all_buildings, exported, warnings, segment_calls,
                    failed >>

NextBatch ==
    \/ FindLazFiles
    \/ SkipFile
    \/ SegmentFile
    \/ ProcessBuilding
    \/ Summary

SpecBatch == InitBatch /\ [][NextBatch]_vars

-----------------------------------------------------------------------------
(* extract_planes_ransac *)

\* the planes a fit may find in a cloud
PlaneNames == {"A", "B", "C", "D", "E", "F", "S"}

\* ransac_n: the points a fit samples
RansacN == 3

\* OptimizedBuildingProcessor: max_iterations, and the least pool and the
\* least inlier count
MaxIterations == 5
MinInliers == 100

\* n points that lie within distance_threshold of the planes `on`
Block(on, n) == [ k \in 1..n |-> on ]

\* a cloud of a points on plane A only, b on B only, c on C only, ab on the
\* line where A and B meet, s on the stray plane S
Cloud(a, b, c, ab, s) ==
    Block({"A"}, a) \o Block({"B"}, b) \o Block({"C"}, c) \o
    Block({"A", "B"}, ab) \o Block({"S"}, s)

\* pcd.select_by_index(idx, invert): the elements of s at the positions in
\* idx (not in idx when invert), in their order
SelectByIndex(s, idx, invert) ==
    LET tagged == [ k \in 1..Len(s) |-> << k, s[k] >> ]
        kept == SelectSeq(tagged, LAMBDA t : (t[1] \in idx) # invert)
    IN  [ k \in 1..Len(kept) |-> kept[k][2] ]

\* the positions in the pool of the points within distance_threshold of p
InliersOf(cloud, pool, p) == { k \in 1..Len(pool) : p \in cloud[pool[k]] }

\* the largest inlier count a plane of the pool has
RECURSIVE MaxOf(_)
MaxOf(S) ==
    IF S = {} THEN 0
    ELSE LET x == CHOOSE y \in S : TRUE
             r == MaxOf(S \ {x})
         IN  IF x > r THEN x ELSE r

BestCount(cloud, pool) ==
    MaxOf({ Cardinality(InliersOf(cloud, pool, p)) : p \in PlaneNames })

\* remaining.segment_plane(distance_threshold, ransac_n=3,
\* num_iterations=1000): the plane of any sample of three points of the pool
\* may come out best of the planes sampled; the call raises on a pool of
\* fewer than ransac_n points, and may raise for other reasons
segment_plane(cloud, pool) ==
    { [ raised |-> TRUE, plane_model |-> "none", inliers |-> {} ] } \cup
    IF Len(pool) < RansacN THEN {}
    ELSE { [ raised |-> FALSE, plane_model |-> p,
             inliers |-> InliersOf(cloud, pool, p) ] :
           p \in { q \in PlaneNames :
                     Cardinality(InliersOf(cloud, pool, q)) >= RansacN } }

\* the dict appended to planes
PlaneRecord(p, pool, fit) ==
    IF p = "MetzBuildingProcessor"
    THEN [ equation |-> fit.plane_model,
           points |-> SelectByIndex(pool, fit.inliers, FALSE),
           num_points |-> Cardinality(fit.inliers) ]
    ELSE [ model |-> fit.plane_model,
           num_points |-> Cardinality(fit.inliers) ]

\* a mutation: the plane is put in front of the list
PrependPlane(ps, rec) == << rec >> \o ps
\* planes.append({...})
AppendPlane(ps, rec) == Append(ps, rec)

\* a mutation: the inliers stay in the pool
KeepInliers(pool, inliers) == pool
\* remaining = remaining.select_by_index(inliers, invert=True)
RemoveInliers(pool, inliers) == SelectByIndex(pool, inliers, TRUE)

\* OptimizedBuildingProcessor.extract_planes_ransac(points)
InitRansacOptimized ==
    /\ ransac_proc = "OptimizedBuildingProcessor"
    /\ \E a \in {100, 150}, b \in {0, 99, 100, 120}, c \in {0, 100},
          ab \in {0, 30} :
          ransac_points = Cloud(a, b, c, ab, 3)
    /\ max_planes = MaxIterations
    /\ ransac_min_points = MinInliers

\* MetzBuildingProcessor.extract_planes_ransac(points, max_planes,
\* min_points) on a small cloud
InitRansacMetz ==
    /\ ransac_proc = "MetzBuildingProcessor"
    /\ \E a \in {3, 5}, b \in {0, 2, 4, 6}, c \in {0, 3}, ab \in {0, 1},
          s \in {0, 3} :
          ransac_points = Cloud(a, b, c, ab, s)
    /\ max_planes \in 1..3
    /\ ransac_min_points \in 2..4

\* MetzBuildingProcessor.extract_planes_ransac(points), with the defaults
\* max_planes = 6 and min_points = 50
InitRansacMetzDefault ==
    /\ ransac_proc = "MetzBuildingProcessor"
    /\ \E a \in {50, 80}, b \in {0, 49, 60}, c \in {0, 50}, ab \in {0, 10} :
          ransac_points = Cloud(a, b, c, ab, 3)
    /\ max_planes = 6
    /\ ransac_min_points = 50

\* OptimizedBuildingProcessor.extract_planes_ransac(points) on a cloud of
\* more planes than max_iterations, each of the least inlier count
InitRansacSixPlanes ==
    /\ ransac_proc = "OptimizedBuildingProcessor"
    /\ ransac_points =
          Block({"A"}, MinInliers) \o Block({"B"}, MinInliers) \o
          Block({"C"}, MinInliers) \o Block({"D"}, MinInliers) \o
          Block({"E"}, MinInliers) \o Block({"F"}, MinInliers)
    /\ max_planes = MaxIterations
    /\ ransac_min_points = MinInliers

InitRansac ==
    /\ IdleSeg
    /\ IdleBatch
    /\ IdleMesh
    /\ \/ InitRansacOptimized
       \/ InitRansacMetz
       \/ InitRansacMetzDefault
       \/ InitRansacSixPlanes
    /\ remaining_pcd = Identity(Len(ransac_points))
    /\ planes = << >>
    /\ fit_log = << >>
    /\ ransac_i = 0
    /\ ransac_pc = "loop"

\* what an iteration did, for the properties
FitEntry(fit, fitted, recorded) ==
    [ pool |-> Len(remaining_pcd),
      fitted |-> fitted,
      raised |-> fit.raised,
      recorded |-> recorded,
      plane |-> fit.plane_model,
      inliers |-> { remaining_pcd[k] : k \in fit.inliers },
      best |-> BestCount(ransac_points, remaining_pcd) ]

NoFit == [ raised |-> FALSE, plane_model |-> "none", inliers |-> {} ]

\* a mutation: the loop runs once more
RansacIterationOneMore ==
    /\ ransac_pc = "loop"
    /\ ransac_i <= max_planes
    /\ IF Len(remaining_pcd) < ransac_min_points
       THEN /\ ransac_pc' = "done"
            /\ fit_log' = Append(fit_log, FitEntry(NoFit, FALSE, FALSE))
            /\ UNCHANGED << planes, remaining_pcd, ransac_i >>
       ELSE \E fit \in segment_plane(ransac_points, remaining_pcd) :
              IF fit.raised
              THEN /\ ransac_pc' =
                         IF ransac_proc = "MetzBuildingProcessor"
                         THEN "raised" ELSE "done"
                   /\ fit_log' = Append(fit_log, FitEntry(fit, TRUE, FALSE))
                   /\ UNCHANGED << planes, remaining_pcd, ransac_i >>
              ELSE IF Cardinality(fit.inliers) < ransac_min_points
              THEN /\ ransac_pc' = "done"
                   /\ fit_log' = Append(fit_log, FitEntry(fit, TRUE, FALSE))
                   /\ UNCHANGED << planes, remaining_pcd, ransac_i >>
              ELSE /\ planes' = AppendPlane(planes,
                          PlaneRecord(ransac_proc, remaining_pcd, fit))
                   /\ remaining_pcd' = RemoveInliers(remaining_pcd, fit.inliers)
                   /\ fit_log' = Append(fit_log, FitEntry(fit, TRUE, TRUE))
                   /\ ransac_i' = ransac_i + 1
                   /\ UNCHANGED ransac_pc
    /\ UNCHANGED << not_ransac_vars, ransac_proc, ransac_points, max_planes,
                    ransac_min_points >>
\* one iteration of `for i in range(max_planes)`, a break included
RansacIteration ==
    /\ ransac_pc = "loop"
    /\ ransac_i < max_planes
    /\ IF Len(remaining_pcd) < ransac_min_points
       THEN /\ ransac_pc' = "done"
            /\ fit_log' = Append(fit_log, FitEntry(NoFit, FALSE, FALSE))
            /\ UNCHANGED << planes, remaining_pcd, ransac_i >>
       ELSE \E fit \in segment_plane(ransac_points, remaining_pcd) :
              IF fit.raised
              THEN /\ ransac_pc' =
                         IF ransac_proc = "MetzBuildingProcessor"
                         THEN "raised" ELSE "done"
                   /\ fit_log' = Append(fit_log, FitEntry(fit, TRUE, FALSE))
                   /\ UNCHANGED << planes, remaining_pcd, ransac_i >>
              ELSE IF Cardinality(fit.inliers) < ransac_min_points
              THEN /\ ransac_pc' = "done"
                   /\ fit_log' = Append(fit_log, FitEntry(fit, TRUE, FALSE))
                   /\ UNCHANGED << planes, remaining_pcd, ransac_i >>
              ELSE /\ planes' = AppendPlane(planes,
                          PlaneRecord(ransac_proc, remaining_pcd, fit))
                   /\ remaining_pcd' = RemoveInliers(remaining_pcd, fit.inliers)
                   /\ fit_log' = Append(fit_log, FitEntry(fit, TRUE, TRUE))
                   /\ ransac_i' = ransac_i + 1
                   /\ UNCHANGED ransac_pc
    /\ UNCHANGED << not_ransac_vars, ransac_proc, ransac_points, max_planes,
                    ransac_min_points >>

\* the loop has run max_planes times: return planes
RansacLoopEnd ==
    /\ ransac_pc = "loop"
    /\ ransac_i = max_planes
    /\ ransac_pc' = "done"
    /\ UNCHANGED << not_ransac_vars, ransac_proc, ransac_points, max_planes,
                    ransac_min_points, remaining_pcd, planes, fit_log,
                    ransac_i >>

NextRansac ==
    \/ RansacIteration
    \/ RansacLoopEnd

SpecRansac == InitRansac /\ [][NextRansac]_vars

\* a step of the loop: an iteration records a plane and goes on to the
\* next one, or the function returns or raises
LoopStep ==
    /\ ransac_pc = "loop"
    /\ \/ ransac_i' = ransac_i + 1 /\ ransac_pc' = "loop"
       \/ ransac_i' = ransac_i /\ ransac_pc' \in {"done", "raised"}

\* the loop is not suspended: while it runs, its next step is taken
SpecRansacFair == SpecRansac /\ WF_<< ransac_i, ransac_pc >>(LoopStep)

-----------------------------------------------------------------------------
(* create_building_mesh *)

\* the most vertices of a hull or of a mesh of the library
MaxHull == 4

\* the most planes of a building
MaxMeshPlanes == 4

\* the least number of points of a plane of extract_planes_ransac(points,
\* max_planes=8)
DefaultMinPoints == 50

\* what a call of the library yields: -1 when it raises, else the number of
\* vertices of its mesh, or of points of its hull
LibraryOutcomes == {0 - 1, 0, 2, 3, MaxHull}

\* a mesh the library builds over the given points, of h vertices at most
LibraryMesh(verts, h) ==
    LET n == IF h < Len(verts) THEN h ELSE Len(verts) IN
    [ vertices |-> SubSeq(verts, 1, n),
      triangles |-> [ i \in 1..(n - 2) |-> << i - 1, i, i + 1 >> ] ]

\* a mutation: the loop runs to the last vertex
FanTrianglesToLast(num_verts) ==
    IF num_verts >= 3
    THEN [ i \in 1..(num_verts - 1) |-> << 0, i, i + 1 >> ]
    ELSE << >>
\* if num_verts >= 3: for i in range(1, num_verts - 1):
\*     triangles.append([0, i, i + 1])
FanTriangles(num_verts) ==
    IF num_verts >= 3
    THEN [ i \in 1..(num_verts - 2) |-> << 0, i, i + 1 >> ]
    ELSE << >>

\* the mesh of the convex polygon hull_points_3d
FanMesh(hull_points_3d) ==
    [ vertices |-> hull_points_3d,
      triangles |-> FanTriangles(Len(hull_points_3d)) ]

\* combined_mesh += plane_mesh
MeshAdd(a, b) ==
    [ vertices |-> a.vertices \o b.vertices,
      triangles |-> a.triangles \o
          [ k \in 1..Len(b.triangles) |->
              [ j \in 1..3 |-> b.triangles[k][j] + Len(a.vertices) ] ] ]

\* mesh.remove_duplicated_vertices(): the first vertex of each position is
\* kept, the triangles follow
RemoveDuplicatedVertices(m) ==
    LET n == Len(m.vertices)
        first(k) == CHOOSE j \in 1..k :
                        /\ m.vertices[j] = m.vertices[k]
                        /\ \A l \in 1..(j - 1) : m.vertices[l] # m.vertices[k]
        kept == { k \in 1..n : first(k) = k }
        index(k) == Cardinality({ j \in kept : j < first(k) })
    IN  [ vertices |-> Take(m.vertices, Ascending(kept)),
          triangles |-> [ t \in 1..Len(m.triangles) |->
                            [ j \in 1..3 |-> index(m.triangles[t][j] + 1) ] ] ]

\* a triangle with its least index first, its orientation kept
Rotated(t) ==
    IF t[1] <= t[2] /\ t[1] <= t[3] THEN t
    ELSE IF t[2] <= t[1] /\ t[2] <= t[3] THEN << t[2], t[3], t[1] >>
    ELSE << t[3], t[1], t[2] >>

\* mesh.remove_duplicated_triangles()
RemoveDuplicatedTriangles(m) ==
    LET keep == { k \in 1..Len(m.triangles) :
                    \A j \in 1..(k - 1) :
                        Rotated(m.triangles[j]) # Rotated(m.triangles[k]) }
    IN  [ m EXCEPT !.triangles = Take(m.triangles, Ascending(keep)) ]

\* mesh.remove_degenerate_triangles()
RemoveDegenerateTriangles(m) ==
    [ m EXCEPT !.triangles =
        SelectSeq(m.triangles,
                  LAMBDA t : t[1] # t[2] /\ t[2] # t[3] /\ t[1] # t[3]) ]

\* a mutation: an exception of the fallback leaves the method
OuterExceptReraises(pts, alpha_small) ==
    [ raised |-> TRUE, mesh |-> EmptyMesh, path |-> "raised" ]
\* _create_flat_plane_mesh, the handler `except Exception`: the alpha shape
\* with alpha = 0.1, an empty mesh when it raises
OuterExcept(pts, alpha_small) ==
    IF alpha_small = 0 - 1
    THEN [ raised |-> FALSE, mesh |-> EmptyMesh, path |-> "empty" ]
    ELSE [ raised |-> FALSE, mesh |-> LibraryMesh(pts, alpha_small),
           path |-> "alpha_small" ]

\* _create_flat_plane_mesh, the inner handler `except`: the convex hull of
\* the plane's points (scipy's, or open3d's without scipy) and its fan
InnerExcept(pts, hull, alpha_small) ==
    IF hull = 0 - 1
    THEN OuterExcept(pts, alpha_small)
    ELSE [ raised |-> FALSE, mesh |-> FanMesh(SubSeq(pts, 1, hull)),
           path |-> "fan" ]

\* what the library does during one call of _create_flat_plane_mesh: whether
\* the alpha is computed, and the outcomes of the alpha shape, of the hull
\* and of the alpha shape with alpha = 0.1
PlaneEnvs ==
    [ prepared : BOOLEAN, alpha : {0 - 1, 0, 3}, hull : LibraryOutcomes,
      alpha_small : {0 - 1, 0, 3} ]

_create_flat_plane_mesh(pts, env) ==
    IF Len(pts) < 3
    THEN [ raised |-> FALSE, mesh |-> EmptyMesh, path |-> "few" ]
    ELSE IF ~env.prepared
    THEN OuterExcept(pts, env.alpha_small)
    ELSE IF env.alpha > 0
    THEN [ raised |-> FALSE, mesh |-> LibraryMesh(pts, env.alpha),
           path |-> "alpha" ]
    ELSE InnerExcept(pts, env.hull, env.alpha_small)

\* a mutation: two planes suffice
UsesPlanesFromTwo(ps) == Len(ps) >= 2
\* if len(planes) >= 3
UsesPlanes(ps) == Len(ps) >= 3

\* the vertices of a Poisson reconstruction: no points of the cloud
PoissonVertices == [ i \in 1..MaxHull |-> 0 - i ]

\* the points of plane j of planes of the sizes ns
RECURSIVE PlanesOfSizes(_, _)
PlanesOfSizes(ns, base) ==
    IF ns = << >> THEN << >>
    ELSE << [ points |-> [ i \in 1..Head(ns) |-> base + i ] ] >> \o
         PlanesOfSizes(Tail(ns), base + Head(ns))

RECURSIVE SumSeq(_)
SumSeq(ns) == IF ns = << >> THEN 0 ELSE Head(ns) + SumSeq(Tail(ns))

\* create_building_mesh(points): the planes are those of
\* extract_planes_ransac(points, max_planes=8), disjoint and of 50 points at
\* least
InitCreateBuildingMesh ==
    /\ mesh_entry = "create_building_mesh"
    /\ \E k \in 0..MaxMeshPlanes, rest \in {0, 5} :
          LET ns == [ j \in 1..k |-> DefaultMinPoints ] IN
          /\ mesh_planes = PlanesOfSizes(ns, 0)
          /\ mesh_points = Identity(SumSeq(ns) + rest)
    /\ mesh_pc = "start"

\* _create_mesh_from_planes(planes) on planes of any size
InitCreateMeshFromPlanes ==
    /\ mesh_entry = "_create_mesh_from_planes"
    /\ \E k \in 1..3 : \E ns \in [ 1..k -> {2, DefaultMinPoints} ] :
          /\ mesh_planes = PlanesOfSizes(ns, 0)
          /\ mesh_points = Identity(SumSeq(ns))
    /\ mesh_pc = "planes"

InitMesh ==
    /\ IdleSeg
    /\ IdleBatch
    /\ IdleRansac
    /\ \/ InitCreateBuildingMesh
       \/ InitCreateMeshFromPlanes
    /\ plane_i = 0
    /\ combined_mesh = EmptyMesh
    /\ plane_log = << >>
    /\ mesh = EmptyMesh
    /\ mesh_source = "none"

\* create_building_mesh up to its branch: the planes, or the convex hull of
\* the points
CreateBuildingMesh ==
    /\ mesh_pc = "start"
    /\ IF UsesPlanes(mesh_planes)
       THEN /\ mesh_pc' = "planes"
            /\ UNCHANGED << mesh, mesh_source >>
       ELSE \E hull \in LibraryOutcomes :
              IF hull = 0 - 1
              THEN /\ mesh_pc' = "raised"
                   /\ UNCHANGED << mesh, mesh_source >>
              ELSE /\ mesh' = LibraryMesh(mesh_points, hull)
                   /\ mesh_source' = "hull_of_points"
                   /\ mesh_pc' = "clean"
    /\ UNCHANGED << not_mesh_vars, mesh_entry, mesh_points, mesh_planes,
                    plane_i, combined_mesh, plane_log >>

\* one iteration of `for plane in planes` of _create_mesh_from_planes
PlaneIteration ==
    /\ mesh_pc = "planes"
    /\ plane_i < Len(mesh_planes)
    /\ LET pts == mesh_planes[plane_i + 1].points IN
       IF Len(pts) < 3
       THEN /\ plane_log' = Append(plane_log,
                   [ path |-> "continue", mesh |-> EmptyMesh,
                     offset |-> Len(combined_mesh.vertices) ])
            /\ plane_i' = plane_i + 1
            /\ UNCHANGED << combined_mesh, mesh_pc >>
       ELSE \E env \in PlaneEnvs :
              LET r == _create_flat_plane_mesh(pts, env) IN
              IF r.raised
              THEN /\ mesh_pc' = "raised"
                   /\ UNCHANGED << plane_log, plane_i, combined_mesh >>
              ELSE /\ plane_log' = Append(plane_log,
                          [ path |-> r.path, mesh |-> r.mesh,
                            offset |-> Len(combined_mesh.vertices) ])
                   /\ combined_mesh' =
                          IF Len(r.mesh.vertices) > 0
                          THEN MeshAdd(combined_mesh, r.mesh)
                          ELSE combined_mesh
                   /\ plane_i' = plane_i + 1
                   /\ UNCHANGED mesh_pc
    /\ UNCHANGED << not_mesh_vars, mesh_entry, mesh_points, mesh_planes,
                    mesh, mesh_source >>

\* _create_mesh_from_planes after its loop: without a vertex, the Poisson
\* reconstruction of the planes' points, their convex hull when it raises
AfterPlanes ==
    /\ mesh_pc = "planes"
    /\ plane_i = Len(mesh_planes)
    /\ LET next_pc == IF mesh_entry = "create_building_mesh" THEN "clean"
                                                             ELSE "done"
           all_points == Concat([ j \in 1..Len(mesh_planes) |->
                                    mesh_planes[j].points ])
       IN  IF Len(combined_mesh.vertices) = 0
           THEN \E poisson \in LibraryOutcomes, hull \in LibraryOutcomes :
                  IF poisson # 0 - 1
                  THEN /\ mesh' = RemoveDegenerateTriangles(
                                    RemoveDuplicatedTriangles(
                                    RemoveDuplicatedVertices(
                                      LibraryMesh(PoissonVertices, poisson))))
                       /\ mesh_source' = "poisson"
                       /\ mesh_pc' = next_pc
                  ELSE IF hull # 0 - 1
                  THEN /\ mesh' = LibraryMesh(all_points, hull)
                       /\ mesh_source' = "hull_of_planes"
                       /\ mesh_pc' = next_pc
                  ELSE /\ mesh_pc' = "raised"
                       /\ UNCHANGED << mesh, mesh_source >>
           ELSE /\ mesh' = combined_mesh
                /\ mesh_source' = "planes"
                /\ mesh_pc' = next_pc
    /\ UNCHANGED << not_mesh_vars, mesh_entry, mesh_points, mesh_planes,
                    plane_i, combined_mesh, plane_log >>

\* create_building_mesh, the cleaning of the mesh
CleanMesh ==
    /\ mesh_pc = "clean"
    /\ mesh' = RemoveDegenerateTriangles(
                 RemoveDuplicatedTriangles(RemoveDuplicatedVertices(mesh)))
    /\ mesh_pc' = "done"
    /\ UNCHANGED << not_mesh_vars, mesh_entry, mesh_points, mesh_planes,
                    plane_i, combined_mesh, plane_log, mesh_source >>

NextMesh ==
    \/ CreateBuildingMesh
    \/ PlaneIteration
    \/ AfterPlanes
    \/ CleanMesh

SpecMesh == InitMesh /\ [][NextMesh]_vars

-----------------------------------------------------------------------------
(* Notions used by the properties *)

Optimized == entry = "segment_buildings_optimized"
Metz == entry = "segment_buildings_by_proximity"
Direct == entry = "downsample_points"

\* the points an iteration of the log clustered or extended over
LogPoints(k) == Take(points, cell_log[k].indices)

\* the label groups of iteration k that are not noise
LogLabels(k) == Range(cell_log[k].labels) \ {0 - 1}

\* the size of the label group l of iteration k after the extension
GroupSize(k, l) ==
    Len(ClusterPoints(LogPoints(k), cell_log[k], l, eps))

-----------------------------------------------------------------------------
(* C1 *)

\* C1: create_spatial_grid puts every point index in exactly one cell, the
\* cell whose key (cx, cy) satisfies cx*g <= x < (cx+1)*g and
\* cy*g <= y < (cy+1)*g (the floor of x/g and y/g, also for negative
\* coordinates); no index occurs twice and no other index occurs.
C1_GridPartition ==
    (Optimized /\ pc # "start") =>
        /\ \A i \in 1..Len(points) :
              Cardinality({ k \in 1..Len(grid_cells) :
                              i \in Range(grid_cells[k].indices) }) = 1
        /\ \A k \in 1..Len(grid_cells) :
              LET c == grid_cells[k] IN
              /\ Range(c.indices) \subseteq 1..Len(points)
              /\ Cardinality(Range(c.indices)) = Len(c.indices)
              /\ \A i \in Range(c.indices) :
                    /\ c.key[1] * grid_size <= points[i][1]
                    /\ points[i][1] < (c.key[1] + 1) * grid_size
                    /\ c.key[2] * grid_size <= points[i][2]
                    /\ points[i][2] < (c.key[2] + 1) * grid_size

\* a grid of several cells, one of them with a negative key and one of them
\* holding several points
C1_Witness ==
    /\ Optimized /\ pc # "start"
    /\ Len(grid_cells) >= 2
    /\ \E k \in 1..Len(grid_cells) :
          grid_cells[k].key[1] < 0 /\ grid_cells[k].key[2] < 0
    /\ \E k \in 1..Len(grid_cells) : Len(grid_cells[k].indices) >= 2

-----------------------------------------------------------------------------
(* C2 *)

\* the clusters the clustering loop kept, parallel to cluster_origin
Emitted == IF Metz THEN buildings ELSE all_clusters

\* q has min_points points of P (itself included) within the radius r
HasDenseNeighbourhood(P, q, r2) ==
    Cardinality({ i \in 1..Len(P) : Dist2(P[i], P[q]) <= r2 }) >= min_points

\* every member of the group G of points of P is within the radius of a
\* point of G that has a dense neighbourhood in P
DensityReachable(P, G, r2) ==
    \A p \in G : \E q \in G :
        Dist2(P[p], P[q]) <= r2 /\ HasDenseNeighbourhood(P, q, r2)

\* the positions, within iteration k, of the points of the cluster c
PositionsIn(k, c) ==
    { j \in 1..Len(cell_log[k].indices) : cell_log[k].indices[j] \in Range(c) }

\* C2 as stated: every member of every emitted cluster is within eps of a
\* core point of its cluster (a point of the cluster with min_points points
\* of the clustered cell within eps).
C2_AllClustersDensityReachable ==
    \A n \in 1..Len(Emitted) :
        LET k == cluster_origin[n].cell IN
        DensityReachable(LogPoints(k), PositionsIn(k, Emitted[n]), Sq(eps))

\* C2 amended: density-reachability holds for every cluster of a cell that
\* was not downsampled and of segment_buildings_by_proximity, and for every
\* label group of the reduced point set of a downsampled cell; it is not
\* claimed for the re-expanded clusters of a downsampled cell.
C2_DensityReachableWithoutExpansion ==
    /\ \A n \in 1..Len(Emitted) :
          LET k == cluster_origin[n].cell IN
          ~ cell_log[k].downsampled =>
              DensityReachable(LogPoints(k), PositionsIn(k, Emitted[n]),
                               Sq(eps))
    /\ \A k \in 1..Len(cell_log) : \A l \in LogLabels(k) :
          DensityReachable(cell_log[k].sample,
                           Range(LabelMask(cell_log[k].labels, l)),
                           Sq(eps * cell_log[k].scale))

\* a kept cluster of a cell that was not downsampled, with a member that is
\* no core point itself (a border point)
C2_Witness ==
    Optimized /\ \E n \in 1..Len(Emitted) :
        LET k == cluster_origin[n].cell IN
        /\ ~ cell_log[k].downsampled
        /\ Len(Emitted[n]) >= 3
        /\ \E p \in PositionsIn(k, Emitted[n]) :
              ~ HasDenseNeighbourhood(LogPoints(k), p, Sq(eps))

-----------------------------------------------------------------------------
(* C3 *)

\* C3: the merge returns at most as many buildings as it was given clusters,
\* and returns a list of 0 or 1 clusters unchanged.
C3_MergeNeverLonger ==
    (Optimized /\ pc = "done") =>
        /\ Len(buildings) <= Len(all_clusters)
        /\ Len(all_clusters) <= 1 => buildings = all_clusters

\* a merge of three or more clusters into fewer, but several, buildings
C3_Witness ==
    /\ Optimized /\ pc = "done"
    /\ Len(all_clusters) >= 3
    /\ Len(buildings) >= 2
    /\ Len(buildings) < Len(all_clusters)

-----------------------------------------------------------------------------
(* C4 *)

\* the centroids of the clusters i and j are at most 2 * eps apart:
\* |S_i / n_i - S_j / n_j| <= 2 eps, multiplied by n_i * n_j
CentroidsClose(i, j) ==
    LET ni == Len(all_clusters[i])
        nj == Len(all_clusters[j])
        si == SumPts(Take(points, all_clusters[i]))
        sj == SumPts(Take(points, all_clusters[j]))
    IN  Dist2(ScalePt(si, nj), ScalePt(sj, ni)) <= Sq(2 * eps * ni * nj)

\* the clusters linked to those of M by chains of close centroids inside G
RECURSIVE ChainClosure(_, _)
ChainClosure(G, M) ==
    LET N == M \cup { j \in G : \E i \in M : CentroidsClose(i, j) }
    IN  IF N = M THEN M ELSE ChainClosure(G, N)

\* the clusters that were unioned into the same building as cluster i
MergedWith(i) ==
    { j \in 1..Len(all_clusters) : merge_labels[j] = merge_labels[i] }

\* C4 as stated: any two clusters unioned into one building have centroids
\* at most 2 * eps apart.
C4_MergedCentroidsPairwiseClose ==
    (Optimized /\ pc = "done" /\ merge_labels # << >>) =>
        \A i \in 1..Len(all_clusters) : \A j \in MergedWith(i) :
            CentroidsClose(i, j)

\* C4 amended: any two clusters unioned into one building are linked by a
\* chain of clusters of that building whose consecutive centroids are at
\* most 2 * eps apart, and each building is the union of one such group.
C4_MergedCentroidsChained ==
    (Optimized /\ pc = "done" /\ merge_labels # << >>) =>
        /\ Len(merge_labels) = Len(all_clusters)
        /\ \A i \in 1..Len(all_clusters) :
              MergedWith(i) = ChainClosure(MergedWith(i), {i})
        /\ buildings = MergeByLabel(all_clusters, merge_labels)

\* a building made of three clusters
C4_Witness ==
    /\ Optimized /\ pc = "done" /\ merge_labels # << >>
    /\ \E i \in 1..Len(all_clusters) : Cardinality(MergedWith(i)) >= 3
    /\ Len(buildings) = 1

-----------------------------------------------------------------------------
(* C5 *)

\* the iterations and calls in which downsample_points took the voxel path
\* and returned
VoxelRuns ==
    { k \in 1..Len(cell_log) :
        /\ cell_log[k].downsampled
        /\ Len(cell_log[k].indices) > max_points_per_cluster
        /\ pc # "raised" }

\* C5 as stated: for more than cap points the reduced set has at most as
\* many points as the input and at most 2 * cap points.
C5_ReducedAtMostTwiceCap ==
    \A k \in VoxelRuns :
        /\ Len(cell_log[k].sample) <= Len(cell_log[k].indices)
        /\ Len(cell_log[k].sample) <= 2 * max_points_per_cluster

\* all points of ps are the same point (a bounding box of diagonal 0)
AllCoincide(ps) == \A i, j \in 1..Len(ps) : ps[i] = ps[j]

\* C5 amended: for more than cap points, downsample_points raises when all
\* points coincide (voxel size 0) and otherwise returns a reduced set with
\* at least one point, at most as many points as the input and at most
\* 8 * cap points (2 * cap is exceeded for small caps).
C5_ReducedAtMostEightTimesCap ==
    /\ \A k \in VoxelRuns :
          /\ Len(cell_log[k].sample) >= 1
          /\ Len(cell_log[k].sample) <= Len(cell_log[k].indices)
          /\ Len(cell_log[k].sample) <= 8 * max_points_per_cluster
    /\ (Direct /\ pc # "start" /\ Len(points) > max_points_per_cluster) =>
          (pc = "raised" <=> AllCoincide(points))
    /\ (Optimized /\ pc = "raised") =>
          /\ Len(grid_cells[cell_i + 1].indices) > max_points_per_cluster
          /\ AllCoincide(Take(points, grid_cells[cell_i + 1].indices))

\* more than cap points reduced to fewer points, but more than 2 * cap
C5_Witness ==
    \E k \in VoxelRuns :
        /\ Len(cell_log[k].sample) < Len(cell_log[k].indices)
        /\ Len(cell_log[k].sample) > 2 * max_points_per_cluster

-----------------------------------------------------------------------------
(* C6 *)

\* C6: a cell is downsampled only when it has more than
\* max_points_per_cluster points (and then it is), and downsample_points
\* called with at most target_size points returns the points unchanged with
\* the identity mapping.
C6_NoDownsampleUpToCap ==
    /\ Optimized =>
          \A k \in 1..Len(cell_log) :
              cell_log[k].downsampled <=>
                  Len(cell_log[k].indices) > max_points_per_cluster
    /\ (Direct /\ pc # "start" /\ Len(points) <= max_points_per_cluster) =>
          /\ pc = "done"
          /\ cell_log[1].sample = points
          /\ cell_log[1].scale = 1
          /\ cell_log[1].sample_indices = Identity(Len(points))

\* a direct call with exactly target_size points, not all equal
C6_Witness ==
    /\ Direct /\ pc = "done"
    /\ Len(points) = max_points_per_cluster
    /\ \E i, j \in 1..Len(points) : points[i] # points[j]

-----------------------------------------------------------------------------
(* C7 *)

\* the squared distance of point j of iteration k from the centroid of the
\* label group l of the reduced set, and the square of 2 * eps, both
\* multiplied by Sq(m * scale), m the size of the group
CentroidDist2(k, l, j) ==
    LET mask == LabelMask(cell_log[k].labels, l)
    IN  Dist2(ScalePt(LogPoints(k)[j], Len(mask) * cell_log[k].scale),
              SumPts(Take(cell_log[k].sample, mask)))

TwoEps2(k, l) ==
    Sq(2 * eps * Len(LabelMask(cell_log[k].labels, l)) * cell_log[k].scale)

\* the label group l of iteration k, as point indices
LabelGroup(k, l) ==
    Take(cell_log[k].indices, LabelMask(cell_log[k].labels, l))

\* C7 as stated: a cluster of a downsampled cell includes every point of
\* the cell at distance at most 2 * eps from the centroid of its label
\* group; a cluster of a cell that was not downsampled is its label group.
C7_ExpandedWithinTwoEps ==
    Optimized =>
        \A n \in 1..Len(all_clusters) :
            LET k == cluster_origin[n].cell
                l == cluster_origin[n].label
            IN  IF cell_log[k].downsampled
                THEN \A j \in 1..Len(cell_log[k].indices) :
                        CentroidDist2(k, l, j) <= TwoEps2(k, l) =>
                            cell_log[k].indices[j] \in Range(all_clusters[n])
                ELSE all_clusters[n] = LabelGroup(k, l)

\* C7 amended: a cluster of a downsampled cell consists of exactly the
\* points of the cell at distance strictly less than 2 * eps from the
\* centroid of its label group (a point at exactly 2 * eps is left out); a
\* cluster of a cell that was not downsampled is its label group.
C7_ExpandedStrictlyWithinTwoEps ==
    Optimized =>
        \A n \in 1..Len(all_clusters) :
            LET k == cluster_origin[n].cell
                l == cluster_origin[n].label
            IN  IF cell_log[k].downsampled
                THEN Range(all_clusters[n]) =
                        { cell_log[k].indices[j] :
                            j \in { i \in 1..Len(cell_log[k].indices) :
                                      CentroidDist2(k, l, i) < TwoEps2(k, l) } }
                ELSE all_clusters[n] = LabelGroup(k, l)

\* a cluster of a downsampled cell that has a point of another label group
\* and leaves out a point of the cell
C7_Witness ==
    /\ Optimized
    /\ \E n \in 1..Len(all_clusters) :
          LET k == cluster_origin[n].cell
              l == cluster_origin[n].label
          IN  /\ cell_log[k].downsampled
              /\ Len(all_clusters[n]) > Len(LabelMask(cell_log[k].labels, l))
              /\ Len(all_clusters[n]) < Len(cell_log[k].indices)

-----------------------------------------------------------------------------
(* C8 *)

\* the kept clusters that came from the label group l of iteration k
KeptFrom(k, l) ==
    { n \in 1..Len(Emitted) :
        cluster_origin[n] = [ cell |-> k, label |-> l ] }

\* C8: every kept cluster has at least min_points points and comes from a
\* label other than -1; a label group of fewer than min_points points is
\* dropped; without downsampling no noise point is in a kept cluster.
C8_ClustersAtLeastMinPoints ==
    /\ Len(cluster_origin) = Len(Emitted)
    /\ \A n \in 1..Len(Emitted) :
          /\ Len(Emitted[n]) >= min_points
          /\ cluster_origin[n].label # 0 - 1
          /\ cluster_origin[n].label \in LogLabels(cluster_origin[n].cell)
    /\ \A k \in 1..Len(cell_log) : \A l \in LogLabels(k) :
          Cardinality(KeptFrom(k, l)) =
              IF GroupSize(k, l) >= min_points THEN 1 ELSE 0
    /\ \A k \in 1..Len(cell_log) :
          ~ cell_log[k].downsampled =>
              \A j \in 1..Len(cell_log[k].labels) :
                  cell_log[k].labels[j] = 0 - 1 =>
                      \A n \in 1..Len(Emitted) :
                          cluster_origin[n].cell = k =>
                              cell_log[k].indices[j] \notin Range(Emitted[n])

\* one label group kept and another, of fewer than min_points points, dropped
C8_Witness ==
    /\ Optimized /\ pc = "done"
    /\ Len(all_clusters) >= 1
    /\ \E k \in 1..Len(cell_log) : \E l \in LogLabels(k) :
          GroupSize(k, l) < min_points /\ KeptFrom(k, l) = {}

-----------------------------------------------------------------------------
(* C9 *)

\* C9: every returned building has at least min_points points, and every
\* point of a building is a point of some cluster given to the merge.
C9_BuildingsAtLeastMinPoints ==
    (Optimized /\ pc = "done") =>
        \A b \in 1..Len(buildings) :
            /\ Len(buildings[b]) >= min_points
            /\ Range(buildings[b]) \subseteq
                  UNION { Range(all_clusters[n]) : n \in 1..Len(all_clusters) }

\* a building merged from two clusters, with min_points > 1, next to
\* another building
C9_Witness ==
    /\ Optimized /\ pc = "done"
    /\ min_points >= 2
    /\ Len(buildings) >= 1
    /\ Len(buildings) < Len(all_clusters)

-----------------------------------------------------------------------------
(* C10 *)

\* the occupied cells are the four cells of one 2 x 2 block
TwoByTwoBlock ==
    /\ Len(grid_cells) = 4
    /\ \E cx, cy \in (0 - MaxArm)..MaxArm :
          { grid_cells[k].key : k \in 1..4 } =
              { << cx, cy >>, << cx + 1, cy >>,
                << cx, cy + 1 >>, << cx + 1, cy + 1 >> }

\* all points together are one cluster of the clustering with eps and
\* min_points: one building
SingleBuilding ==
    \A i \in 1..Len(points) :
        DBSCAN(points, Sq(eps), min_points, TRUE)[i] = 0

\* C10 (Scenario B): when the points of one building lie in the four cells
\* of a 2 x 2 block and each cell yields one partial cluster, the merge
\* returns exactly one building.
C10_ScenarioBReunited ==
    ( /\ Optimized /\ pc = "done"
      /\ TwoByTwoBlock
      /\ SingleBuilding
      /\ Len(all_clusters) = 4
      /\ \A k \in 1..4 : \E n \in 1..4 : cluster_origin[n].cell = k )
    => Len(buildings) = 1

-----------------------------------------------------------------------------
(* C11 *)

\* the labels one clustering of all points with eps and min_points gives
GlobalLabels == DBSCAN(points, Sq(eps), min_points, TRUE)

\* the indices of the points with the label l in labels
Blob(labels, l) == { i \in 1..Len(points) : labels[i] = l }

\* the sum of the points with the indices of S
SumOf(S) == SumPts(Take(points, Ascending(S)))

\* the points are two dense blobs, every point in one of them, with
\* centroids 50 apart (along x), clustered with eps = 3 and min_points = 10;
\* labels are the labels of one clustering of all points
ScenarioA(labels) ==
    /\ eps = 3
    /\ min_points = 10
    /\ Range(labels) = {0, 1}
    /\ LET b0 == Blob(labels, 0)
           b1 == Blob(labels, 1)
           n0 == Cardinality(b0)
           n1 == Cardinality(b1)
           c0 == ScalePt(SumOf(b0), n1)
           c1 == ScalePt(SumOf(b1), n0)
       IN  /\ c1[1] - c0[1] = 50 * n0 * n1
           /\ c1[2] = c0[2]
           /\ c1[3] = c0[3]

\* C11 (Scenario A): for two dense blobs with centroids 50 apart, eps = 3
\* and min_points = 10, the segmentation returns exactly 2 buildings,
\* wherever the cell boundaries cut the blobs, and no building has points
\* of both blobs.
C11_ScenarioATwoBuildings ==
    (Optimized /\ pc = "done" /\ eps = 3) =>
        LET labels == GlobalLabels
            b0 == Blob(labels, 0)
            b1 == Blob(labels, 1)
        IN  ScenarioA(labels) =>
                /\ Len(buildings) = 2
                /\ \A b \in 1..Len(buildings) :
                      \/ Range(buildings[b]) \subseteq b0
                      \/ Range(buildings[b]) \subseteq b1

-----------------------------------------------------------------------------
(* C12 *)

\* process_all has returned or raised
Ended == batch_pc \in {"done", "raised"}

\* Scenario D: files were found and none holds a point of the building class
ScenarioD ==
    /\ laz_files # << >>
    /\ \A f \in Range(laz_files) :
          extract_buildings(tiles[f].classifications) = {}

\* the counts of the diagnostic
DiagnosticCounts ==
    {"files_scanned", "points_scanned", "building_points", "buildings_found"}

\* the report carries the counts, and no building found
HasCounts(report) ==
    /\ DiagnosticCounts \subseteq DOMAIN report
    /\ report.buildings_found = 0

-----------------------------------------------------------------------------
(* C13 *)

\* the iterations of the log that recorded a plane, in their order
Recorded == SelectSeq(fit_log, LAMBDA e : e.recorded)

\* every recorded plane had the largest inlier count of its pool
AllMaximal ==
    \A k \in 1..Len(Recorded) :
        Cardinality(Recorded[k].inliers) = Recorded[k].best

NonIncreasing ==
    \A k \in 1..(Len(planes) - 1) :
        planes[k + 1].num_points <= planes[k].num_points

-----------------------------------------------------------------------------
(* C14 *)

RECURSIVE SumNumPoints(_)
SumNumPoints(ps) ==
    IF ps = << >> THEN 0 ELSE Head(ps).num_points + SumNumPoints(Tail(ps))

\* C14: the inlier sets of the planes of extract_planes_ransac are pairwise
\* disjoint subsets of the building's points (the points a Metz plane
\* carries are its inliers), so the inlier counts of the planes sum to at
\* most the number of points.
C14_InliersDisjoint ==
    /\ \A k \in 1..Len(Recorded) :
          /\ Recorded[k].inliers \subseteq 1..Len(ransac_points)
          /\ \A j \in 1..(k - 1) :
                Recorded[j].inliers \cap Recorded[k].inliers = {}
    /\ Len(planes) = Len(Recorded)
    /\ \A k \in 1..Len(planes) :
          /\ planes[k].num_points = Cardinality(Recorded[k].inliers)
          /\ ransac_proc = "MetzBuildingProcessor" =>
                /\ Range(planes[k].points) = Recorded[k].inliers
                /\ Len(planes[k].points) = planes[k].num_points
    /\ SumNumPoints(planes) <= Len(ransac_points)

\* the planes A and B are both in the list, of a cloud with points on both
C14_Witness ==
    /\ ransac_pc = "done"
    /\ {"A", "B"} \subseteq { Recorded[k].plane : k \in 1..Len(Recorded) }
    /\ \E i \in 1..Len(ransac_points) : ransac_points[i] = {"A", "B"}

-----------------------------------------------------------------------------
(* C15 *)

\* create_building_mesh has returned
MeshBuilt == mesh_entry = "create_building_mesh" /\ mesh_pc = "done"

\* the planes whose plane mesh has a vertex
UsablePlanes ==
    { j \in 1..Len(plane_log) : Len(plane_log[j].mesh.vertices) > 0 }

\* the plane meshes with a vertex, added in their order
RECURSIVE UnionOfPlaneMeshes(_)
UnionOfPlaneMeshes(log) ==
    IF log = << >> THEN EmptyMesh
    ELSE LET before == UnionOfPlaneMeshes(SubSeq(log, 1, Len(log) - 1))
             last == log[Len(log)].mesh
         IN  IF Len(last.vertices) > 0 THEN MeshAdd(before, last) ELSE before

Cleaned(m) ==
    RemoveDegenerateTriangles(
        RemoveDuplicatedTriangles(RemoveDuplicatedVertices(m)))

PlanePoints ==
    UNION { Range(mesh_planes[j].points) : j \in 1..Len(mesh_planes) }

\* C15: create_building_mesh uses the plane-based mesh only when at least 3
\* planes are usable; with fewer than 3 usable planes, also when 3 or more
\* planes were fitted and fewer than 3 of them yield a plane mesh with a
\* vertex, the mesh is the convex hull of the full point set.
C15_HullUnlessThreeUsable ==
    MeshBuilt =>
        /\ mesh_source = "planes" => Cardinality(UsablePlanes) >= 3
        /\ Cardinality(UsablePlanes) < 3 => mesh_source = "hull_of_points"

\* C15, as it holds: the mesh is the convex hull of the full point set
\* exactly when fewer than 3 planes were fitted; with 3 or more fitted
\* planes it is the cleaned sum of the plane meshes that have a vertex, be
\* they one or two only, and when none has a vertex it is the Poisson
\* reconstruction or else the convex hull of the points of the planes.
C15_HullUnlessThreeFitted ==
    MeshBuilt =>
        /\ mesh_source = "hull_of_points" <=> Len(mesh_planes) < 3
        /\ mesh_source = "hull_of_points" =>
              /\ plane_log = << >>
              /\ Range(mesh.vertices) \subseteq Range(mesh_points)
        /\ Len(mesh_planes) >= 3 =>
              /\ Len(plane_log) = Len(mesh_planes)
              /\ UsablePlanes # {} =>
                    /\ mesh_source = "planes"
                    /\ mesh = Cleaned(UnionOfPlaneMeshes(plane_log))
              /\ UsablePlanes = {} =>
                    /\ mesh_source \in {"poisson", "hull_of_planes"}
                    /\ mesh_source = "hull_of_planes" =>
                          Range(mesh.vertices) \subseteq PlanePoints

\* three planes fitted, one plane mesh only has a vertex, and the mesh is
\* made of it though points outside the planes exist
C15_Witness ==
    /\ MeshBuilt
    /\ Len(mesh_planes) = 3
    /\ Cardinality(UsablePlanes) = 1
    /\ mesh_source = "planes"
    /\ Len(mesh.triangles) > 0
    /\ Range(mesh_points) # PlanePoints

-----------------------------------------------------------------------------
(* C16 *)

\* the planes whose alpha shape failed or was empty, their hull included
\* when it raised
FailedPlanes ==
    { j \in 1..Len(plane_log) :
        plane_log[j].path \in {"fan", "alpha_small", "empty"} }

\* the loop over the planes is never left by an exception, and every plane
\* mesh with a vertex is in combined_mesh, whatever became of the others
PlaneFailuresContained ==
    /\ Len(plane_log) = plane_i
    /\ combined_mesh = UnionOfPlaneMeshes(plane_log)
    /\ mesh_pc = "raised" /\ UsesPlanes(mesh_planes) =>
          plane_i = Len(mesh_planes)
    /\ (mesh_pc \in {"clean", "done"} /\ UsablePlanes # {}) =>
          /\ mesh_source = "planes"
          /\ Range(mesh.vertices) =
                UNION { Range(plane_log[j].mesh.vertices) : j \in UsablePlanes }

-----------------------------------------------------------------------------
(* C17 *)

\* every index of every triangle is the index of a vertex
InRange(m) ==
    \A t \in 1..Len(m.triangles) : \A j \in 1..3 :
        m.triangles[t][j] \in 0..(Len(m.vertices) - 1)

\* the triangles are those of the fan of the n vertices
IsFan(m) ==
    LET n == Len(m.vertices) IN
    IF n >= 3
    THEN /\ Len(m.triangles) = n - 2
         /\ \A i \in 1..(n - 2) : m.triangles[i] = << 0, i, i + 1 >>
    ELSE m.triangles = << >>

\* C17: no triangle of a mesh that is built refers to a vertex index out of
\* range; the fan of a convex boundary of n >= 3 vertices has the triangles
\* (0, i, i+1) for i = 1..n-2, all indices in 0..n-1, n-2 triangles in all;
\* a boundary of fewer than 3 vertices has no triangle.
C17_TrianglesInRange ==
    /\ InRange(mesh)
    /\ InRange(combined_mesh)
    /\ \A j \in 1..Len(plane_log) :
          /\ InRange(plane_log[j].mesh)
          /\ plane_log[j].path = "fan" => IsFan(plane_log[j].mesh)

\* the mesh of a building holds the fan of a boundary of MaxHull vertices, added
\* behind the vertices of an earlier plane; another boundary had 2 vertices
C17_Witness ==
    /\ MeshBuilt
    /\ mesh_source = "planes"
    /\ \E j, k \in 1..Len(plane_log) :
          /\ plane_log[j].path = "fan"
          /\ Len(plane_log[j].mesh.vertices) = MaxHull
          /\ plane_log[j].offset > 0
          /\ << plane_log[j].offset, plane_log[j].offset + 2,
                plane_log[j].offset + 3 >> \in Range(mesh.triangles)
          /\ plane_log[k].path = "fan"
          /\ Len(plane_log[k].mesh.vertices) = 2

-----------------------------------------------------------------------------
(* C18 *)

\* the entries of laz_files whose file has a point of the building class
WithBuildingPoints ==
    { k \in 1..Len(laz_files) :
        extract_buildings(tiles[laz_files[k]].classifications) # {} }

\* the buildings of all entries of laz_files
ExpectedBuildings ==
    SumSeq([ k \in 1..Len(laz_files) |->
               IF k \in WithBuildingPoints
               THEN tiles[laz_files[k]].segments ELSE 0 ])

\* no segmentation of the batch raises
SegmentationsReturn ==
    \A k \in WithBuildingPoints : tiles[laz_files[k]].segments >= 0

\* C18: a failure while one building is reconstructed (plane extraction,
\* mesh creation, metadata computation or mesh export raises) never aborts
\* the batch: every later building of the file and every later file is
\* processed, and the merged model and the metadata file are written.
C18_BuildingFailureNeverAborts ==
    (Ended /\ failed # << >> /\ SegmentationsReturn) =>
        /\ batch_pc = "done"
        /\ file_i = Len(laz_files)
        /\ building_counter = ExpectedBuildings
        /\ metadata_file # << >>
        /\ metadata_file.buildings = metadata
        /\ all_buildings # << >> => merged_model = all_buildings

-----------------------------------------------------------------------------
(* C19 *)

\* a step that ends the iteration of a file without a point of the
\* building class
SkipsFile ==
    /\ batch_pc = "file"
    /\ file_i < Len(laz_files)
    /\ file_i + 1 \notin WithBuildingPoints
    /\ file_i' # file_i

\* the step runs no segmentation, adds no building, keeps the counter, and
\* stays in the loop at the next file
SkipsOnlyTheFile ==
    /\ file_i' = file_i + 1
    /\ batch_pc' = "file"
    /\ UNCHANGED << segment_calls, building_counter, metadata, all_buildings,
                    exported, failed >>
    /\ Len(warnings') = Len(warnings) + 1

\* no skipped file was segmented or has a building, and a batch that
\* returns has segmented every other file
SkippedFilesOnly ==
    /\ Range(segment_calls) \subseteq WithBuildingPoints
    /\ \A k \in 1..Len(metadata) :
          extract_buildings(tiles[metadata[k].file].classifications) # {}
    /\ (batch_pc = "done" /\ laz_files # << >>) =>
          /\ file_i = Len(laz_files)
          /\ segment_calls = Ascending(WithBuildingPoints)

\* C19: a file of the batch without a point of the building class is
\* skipped: no segmentation is run on it, it contributes no building and
\* does not advance the building counter, and the pipeline continues with
\* every remaining file.
C19_FileWithoutBuildingSkipped ==
    /\ []SkippedFilesOnly
    /\ [][SkipsFile => SkipsOnlyTheFile]_vars

\* the first file was skipped, the second gave a building with the first
\* building id
C19_Witness ==
    /\ batch_pc = "done"
    /\ Len(laz_files) >= 2
    /\ 1 \notin WithBuildingPoints
    /\ warnings # << >>
    /\ segment_calls = << 2 >>
    /\ Len(metadata) >= 1
    /\ metadata[1].id = 1
    /\ metadata[1].file = laz_files[2]

-----------------------------------------------------------------------------
(* C20 *)

\* the least and the greatest coordinate c of the points
MinCoord(c) ==
    CHOOSE v \in { points[i][c] : i \in 1..Len(points) } :
        \A i \in 1..Len(points) : v <= points[i][c]

MaxCoordOf(c) ==
    CHOOSE v \in { points[i][c] : i \in 1..Len(points) } :
        \A i \in 1..Len(points) : v >= points[i][c]

\* the grid of a point set whose x-extent and y-extent are both smaller
\* than the cell size
SmallFootprint ==
    /\ Optimized
    /\ pc # "start"
    /\ points # << >>
    /\ MaxCoordOf(1) - MinCoord(1) < grid_size
    /\ MaxCoordOf(2) - MinCoord(2) < grid_size

\* C20: create_spatial_grid gives exactly one cell for every point set
\* whose x-extent and y-extent are both smaller than the cell size g,
\* wherever the footprint lies relative to the multiples of g.
C20_SmallFootprintOneCell ==
    SmallFootprint => Len(grid_cells) = 1

\* C20, as it holds: the grid of such a point set has at most 4 cells, at
\* most 2 along each axis and adjacent; it has exactly one cell when the
\* floors of min/g and max/g agree on both axes, that is when no multiple
\* of g lies in (min x, max x] or in (min y, max y].
C20_SmallFootprintAtMostFourCells ==
    SmallFootprint =>
        /\ Len(grid_cells) <= 4
        /\ \A j, k \in 1..Len(grid_cells) : \A c \in 1..2 :
              grid_cells[j].key[c] - grid_cells[k].key[c] \in {0 - 1, 0, 1}
        /\ Len(grid_cells) = 1 <=>
              /\ FloorDiv(MinCoord(1), grid_size) = FloorDiv(MaxCoordOf(1), grid_size)
              /\ FloorDiv(MinCoord(2), grid_size) = FloorDiv(MaxCoordOf(2), grid_size)

\* a footprint smaller than the cell around a corner of the grid: 4 cells
C20_Witness ==
    /\ SmallFootprint
    /\ Len(grid_cells) = 4

-----------------------------------------------------------------------------
(* C21 *)

\* the ids of the buildings with a metadata record
RecordIds == { metadata[k].id : k \in 1..Len(metadata) }

\* the ids of the buildings whose mesh was given to export_to_glb: a file
\* was written, or the writer raised
ExportCalls ==
    { exported[k].id : k \in 1..Len(exported) } \cup
    { failed[k].id : k \in { j \in 1..Len(failed) :
                               failed[j].step = "export_to_glb" } }

\* C21: after process_all finishes there is exactly one BuildingMetadata
\* record per building: the metadata records are as many as the meshes
\* given to the export and to the merged model, total_buildings of the
\* metadata file is that number, and the merged model is built if and only
\* if that number is positive.
C21_OneRecordPerBuilding ==
    batch_pc = "done" =>
        /\ Cardinality(RecordIds) = Len(metadata)
        /\ Cardinality(Range(all_buildings)) = Len(all_buildings)
        /\ RecordIds = Range(all_buildings)
        /\ RecordIds = ExportCalls
        /\ merged_model = all_buildings
        /\ merged_model # << >> <=> Len(metadata) > 0
        /\ laz_files # << >> =>
              /\ metadata_file.total_buildings = Len(metadata)
              /\ metadata_file.buildings = metadata

\* three buildings: the reconstruction of one failed, the writer of another
\* raised, two records and two meshes in the merged model
C21_Witness ==
    /\ batch_pc = "done"
    /\ building_counter = 3
    /\ Len(metadata) = 2
    /\ Len(merged_model) = 2
    /\ Len(exported) = 1
    /\ metadata_file.total_buildings = 2

-----------------------------------------------------------------------------
(* C22 *)

\* the ids of the records and of the meshes increase strictly and none is
\* beyond the counter
IdsIncrease ==
    /\ \A j, k \in 1..Len(metadata) :
          j < k => metadata[j].id < metadata[k].id
    /\ \A j, k \in 1..Len(all_buildings) :
          j < k => all_buildings[j] < all_buildings[k]
    /\ \A k \in 1..Len(metadata) : metadata[k].id \in 1..building_counter
    /\ \A k \in 1..Len(all_buildings) :
          all_buildings[k] \in 1..building_counter

\* the counter never decreases, and a new record has the next number
CounterAdvances ==
    /\ building_counter' >= building_counter
    /\ metadata' # metadata =>
          /\ building_counter' = building_counter + 1
          /\ Len(metadata') = Len(metadata) + 1
          /\ metadata'[Len(metadata')].id = building_counter'

\* C22: the building identifiers come from one sequence number that
\* increases over the whole batch and is not reset between files: two
\* buildings of one run of process_all have distinct ids, and a building
\* finalized later has a strictly greater number than every building
\* finalized before it.
C22_IdsIncreaseOverBatch ==
    /\ []IdsIncrease
    /\ [][CounterAdvances]_vars

\* buildings of two files: the first building of the second file has the
\* number after the last of the first file
C22_Witness ==
    /\ batch_pc = "done"
    /\ Len(metadata) = 3
    /\ metadata[1].file = metadata[2].file
    /\ metadata[3].file # metadata[2].file
    /\ metadata[3].id = 3

-----------------------------------------------------------------------------
(* C23 *)

\* the merge has run once when the segmentation has returned clusters, and
\* not at all before the segmentation returns or without a cluster
MergedOnceAtEnd ==
    Optimized =>
        /\ merge_calls \in {0, 1}
        /\ pc # "done" => merge_calls = 0
        /\ pc = "done" =>
              /\ Len(cell_log) = Len(grid_cells)
              /\ merge_calls = IF all_clusters = << >> THEN 0 ELSE 1
              /\ all_clusters = << >> => buildings = << >>

\* a call of the merge comes after the last cell, on all the clusters, and
\* no cell is clustered after it
MergeIsBarrier ==
    /\ merge_calls' # merge_calls =>
          /\ merge_calls' = merge_calls + 1
          /\ cell_i = Len(grid_cells)
          /\ Len(cell_log) = Len(grid_cells)
          /\ \A k \in 1..Len(grid_cells) :
                cell_log[k].key = grid_cells[k].key
          /\ all_clusters # << >>
          /\ all_clusters' = all_clusters
          /\ buildings' = merge_adjacent_clusters(points, all_clusters, eps)
    /\ (Optimized /\ cell_log' # cell_log) => merge_calls = 0 /\ merge_calls' = 0

\* C23: in segment_buildings_optimized the merge is a barrier after the
\* clustering of the cells: merge_adjacent_clusters is called at most once
\* per point set, only after every occupied cell was clustered, on the list
\* of all clusters of all cells; it is not called when no cell gave a
\* cluster, and the result is then the empty list.
C23_MergeIsBarrier ==
    /\ []MergedOnceAtEnd
    /\ [][MergeIsBarrier]_vars

\* the merge was called once on the clusters of several cells
C23_Witness ==
    /\ Optimized /\ pc = "done"
    /\ merge_calls = 1
    /\ Len(grid_cells) >= 3
    /\ Cardinality({ cluster_origin[n].cell : n \in 1..Len(cluster_origin) }) >= 2

-----------------------------------------------------------------------------
(* C24 *)

\* extract_planes_ransac has returned or raised
RansacEnded == ransac_pc \in {"done", "raised"}

\* the iteration did not record a plane: the pool was below the minimum,
\* the fit raised, or the plane it returned had too few inliers
Stopped(e) ==
    \/ ~e.fitted /\ e.pool < ransac_min_points
    \/ e.fitted /\ e.raised
    \/ e.fitted /\ ~e.raised /\ Cardinality(e.inliers) < ransac_min_points

\* at most max_planes planes, each of the minimum at least; the iterations
\* record planes up to the first that stops, which ends the extraction
PlanesBounded ==
    /\ Len(planes) <= max_planes
    /\ ransac_proc = "OptimizedBuildingProcessor" => max_planes = MaxIterations
    /\ \A k \in 1..Len(planes) : planes[k].num_points >= ransac_min_points
    /\ Len(planes) = Len(Recorded)
    /\ Len(remaining_pcd) = Len(ransac_points) - SumNumPoints(planes)
    /\ \A k \in 1..Len(fit_log) :
          IF fit_log[k].recorded
          THEN /\ fit_log[k].pool >= ransac_min_points
               /\ Cardinality(fit_log[k].inliers) >= ransac_min_points
          ELSE /\ k = Len(fit_log)
               /\ Stopped(fit_log[k])
               /\ RansacEnded
    /\ ransac_pc = "done" =>
          \/ Len(planes) = max_planes
          \/ (fit_log # << >> /\ ~fit_log[Len(fit_log)].recorded)

\* a recorded plane shrinks the pool
PoolShrinks ==
    planes' # planes =>
        /\ Len(planes') = Len(planes) + 1
        /\ Len(remaining_pcd') < Len(remaining_pcd)
        /\ Len(remaining_pcd') =
              Len(remaining_pcd) - planes'[Len(planes')].num_points

\* C24: extract_planes_ransac returns at most K planes (K = max_planes, 5
\* in the optimized processor), each of the minimum inlier count at least;
\* the extraction stops at the first iteration whose pool has fewer points
\* than the minimum or whose fitted plane has fewer inliers than the
\* minimum; each recorded plane strictly shrinks the pool, and the loop
\* terminates.
C24_AtMostKPlanesAndTerminates ==
    /\ []PlanesBounded
    /\ [][PoolShrinks]_vars
    /\ <>RansacEnded

\* the optimized processor returns 5 planes and leaves a pool of the
\* minimum size
C24_Witness ==
    /\ ransac_pc = "done"
    /\ ransac_proc = "OptimizedBuildingProcessor"
    /\ Len(planes) = MaxIterations
    /\ Len(remaining_pcd) >= ransac_min_points

-----------------------------------------------------------------------------
(* C25 *)

\* the number of rows of the array c that are the point x
Occurrences(c, x) == Cardinality({ k \in 1..Len(c) : c[k] = x })

\* the total number of rows of the arrays of a list
TotalPoints(cs) == SumSeq([ k \in 1..Len(cs) |-> Len(cs[k]) ])

\* building k holds the rows of the clusters of the label l, and no other
UnionOfLabel(k, l) ==
    /\ Len(buildings[k]) =
          SumSeq([ i \in 1..Len(all_clusters) |->
                     IF merge_labels[i] = l THEN Len(all_clusters[i]) ELSE 0 ])
    /\ \A x \in 1..Len(points) :
          Occurrences(buildings[k], x) =
              SumSeq([ i \in 1..Len(all_clusters) |->
                         IF merge_labels[i] = l
                         THEN Occurrences(all_clusters[i], x) ELSE 0 ])

\* the merge clustered the centroids
CentroidsLabelled ==
    /\ Optimized /\ pc = "done"
    /\ merge_calls = 1
    /\ Len(all_clusters) >= 2

\* C25: merge_adjacent_clusters unions exactly the clusters whose centroids
\* received the same label: no centroid is noise, every input cluster ends
\* in exactly one output building, which is the union of the clusters of
\* its label, and the point counts of the outputs sum to the point counts
\* of the inputs.
C25_MergeUnionsByLabel ==
    CentroidsLabelled =>
        /\ Len(merge_labels) = Len(all_clusters)
        /\ \A i \in 1..Len(all_clusters) : merge_labels[i] >= 0
        /\ Len(buildings) = Cardinality(Range(merge_labels))
        /\ \A l \in Range(merge_labels) :
              Cardinality({ k \in 1..Len(buildings) : UnionOfLabel(k, l) }) >= 1
        /\ \A k \in 1..Len(buildings) :
              \E l \in Range(merge_labels) : UnionOfLabel(k, l)
        /\ TotalPoints(buildings) = TotalPoints(all_clusters)

\* three clusters or more, two of one label and one of another
C25_Witness ==
    /\ CentroidsLabelled
    /\ \E i, j, k \in 1..Len(all_clusters) :
          /\ i # j
          /\ merge_labels[i] = merge_labels[j]
          /\ merge_labels[k] # merge_labels[i]

-----------------------------------------------------------------------------
(* C26 *)

\* the files of the directory that find_laz_files is to return
LazFilesOf(dir) == Glob(dir, << "laz" >>) \cup Glob(dir, << "copc", "laz" >>)

\* how many entries of the list fs are the file f
TimesListed(fs, f) == Cardinality({ k \in 1..Len(fs) : fs[k] = f })

\* how many times the file f was handed to the segmentation
TimesSegmented(f) ==
    Cardinality({ k \in 1..Len(segment_calls) :
                    laz_files[segment_calls[k]] = f })

\* C26: find_laz_files returns every .laz / .copc.laz file of the directory
\* once, and process_all processes each file at most once: the buildings of
\* a file x.copc.laz are not produced twice.
C26_EachFileOnce ==
    batch_pc # "start" =>
        /\ \A f \in LazFilesOf(input_dir) : TimesListed(laz_files, f) = 1
        /\ Range(laz_files) \subseteq LazFilesOf(input_dir)
        /\ \A f \in LazFilesOf(input_dir) : TimesSegmented(f) <= 1

-----------------------------------------------------------------------------
(* C27 *)

\* no point is a row of the array c twice
NoRowTwice(c) == \A k, l \in 1..Len(c) : c[k] = c[l] => k = l

\* C27: the buildings returned by segment_buildings_optimized are pairwise
\* disjoint and no point is twice inside one building, also when a cell
\* was downsampled and its clusters were re-expanded.
C27_BuildingsDisjoint ==
    (Optimized /\ pc = "done") =>
        /\ \A b \in 1..Len(buildings) : NoRowTwice(buildings[b])
        /\ \A a, b \in 1..Len(buildings) :
              a # b => Range(buildings[a]) \cap Range(buildings[b]) = {}

-----------------------------------------------------------------------------
(* C28 *)

\* the clusters i and j came out of the same cell, under different labels
SameCellApart(i, j) ==
    /\ i # j
    /\ cluster_origin[i].cell = cluster_origin[j].cell
    /\ cluster_origin[i].label # cluster_origin[j].label

\* the merge put the clusters i and j in one building
Unioned(i, j) ==
    /\ merge_calls = 1
    /\ Len(merge_labels) = Len(all_clusters)
    /\ merge_labels[i] = merge_labels[j]

\* C28: the merge only reconciles clusters of different grid cells: two
\* clusters that the clustering of one cell separated (different labels)
\* are never unioned into one building by merge_adjacent_clusters.
C28_SameCellNeverUnioned ==
    (Optimized /\ pc = "done") =>
        \A i, j \in 1..Len(all_clusters) :
            SameCellApart(i, j) => ~Unioned(i, j)

-----------------------------------------------------------------------------
(* C29 *)

\* what the iteration of the cell with the key `key` computed
LogOf(key) == CHOOSE it \in Range(cell_log) : it.key = key

\* the clusters the iteration `it` appends
ClustersOf(it) ==
    LET new == ExtractClusters(points, it, UniqueLabels(it.labels), eps,
                               min_points)
    IN  [ k \in 1..Len(new) |-> new[k].pts ]

\* all_clusters as the loop over grid_cells.items() builds it, from the
\* same clustering of every cell
ClustersInGridOrder ==
    LET cells == create_spatial_grid(points, grid_size)
    IN  Concat([ k \in 1..Len(cells) |-> ClustersOf(LogOf(cells[k].key)) ])

\* the buildings the loop over grid_cells.items() returns
SequentialBuildings ==
    LET clusters == ClustersInGridOrder
    IN  IF Len(clusters) > 0
        THEN merge_adjacent_clusters(points, clusters, eps)
        ELSE << >>

\* the buildings of a list, each as the set of its points
AsSets(bs) == { Range(bs[k]) : k \in 1..Len(bs) }

\* whatever the order of the cells, the buildings are those of the loop
SameBuildings ==
    pc = "done" => AsSets(buildings) = AsSets(SequentialBuildings)

\* the clustering of a cell appends clusters of points of that cell, made
\* from the points of that cell, and leaves the clusters of the other cells
\* as they are
CellsIndependent ==
    cell_i' = cell_i + 1 =>
        LET cell == grid_cells[cell_i + 1]
            it == cell_log'[cell_i + 1]
        IN  /\ Len(cell_log') = cell_i + 1
            /\ SubSeq(cell_log', 1, cell_i) = cell_log
            /\ it.key = cell.key /\ it.indices = cell.indices
            /\ it.labels = DBSCAN(it.sample, Sq(eps * it.scale), min_points,
                                  TRUE)
            /\ all_clusters' = all_clusters \o ClustersOf(it)
            /\ \A k \in (Len(all_clusters) + 1)..Len(all_clusters') :
                  Range(all_clusters'[k]) \subseteq Range(cell.indices)

\* C29: the set of buildings returned by segment_buildings_optimized, each
\* building taken as a set of points, is the same for every order in which
\* the occupied grid cells are clustered: the clustering of a cell neither
\* reads nor writes what the clustering of another cell produced, and any
\* order of the per-cell steps followed by the merge gives the same
\* buildings.
C29_CellOrderIrrelevant ==
    /\ []SameBuildings
    /\ [][CellsIndependent]_vars

\* the cells were clustered in another order than the loop takes them, the
\* clusters reached the merge in another order and came out as the same
\* buildings, several of them, one made of several clusters
C29_Witness ==
    /\ pc = "done"
    /\ grid_cells # create_spatial_grid(points, grid_size)
    /\ all_clusters # ClustersInGridOrder
    /\ Len(buildings) >= 2
    /\ Len(buildings) < Len(all_clusters)
    /\ AsSets(buildings) = AsSets(SequentialBuildings)

-----------------------------------------------------------------------------
(* C30 *)

\* the original points of the cell that sample_indices associates with the
\* reduced points of the label l, as indices into points
MappedPoints(it, l) ==
    { it.indices[it.sample_indices[j]] :
        j \in { i \in 1..Len(it.labels) : it.labels[i] = l } }

\* the clusters appended for the label l of the k-th cell
EmittedFor(k, l) ==
    { c \in 1..Len(all_clusters) :
        cluster_origin[c].cell = k /\ cluster_origin[c].label = l }

\* C30: the re-expansion of a cluster in a downsampled cell never loses
\* membership: every original point that the index mapping of the
\* downsampling associates with a reduced point of the cluster is a member
\* of the emitted cluster, also when it lies eps * 2 or farther from the
\* centroid.
C30_MappedPointsKept ==
    Optimized =>
        \A k \in 1..Len(cell_log) :
            cell_log[k].downsampled =>
                \A l \in Range(cell_log[k].labels) :
                    \A c \in EmittedFor(k, l) :
                        MappedPoints(cell_log[k], l)
                            \subseteq Range(all_clusters[c])

====
